---- MODULE Spec2Model ----
(***************************************************************************)
(* Cazino: parimutuel prediction markets.  Model of the domain layer       *)
(* (models.rs, rules.rs, parimutuel.rs) and of the service orchestrator    *)
(* (service.rs) over the storage contract of db/trait.rs as implemented by *)
(* db/sqlite.rs.                                                           *)
(***************************************************************************)
EXTENDS Integers, Sequences, FiniteSets, TLC

(* ------------------------------ bounds -------------------------------- *)
MaxMarkets == 2
MaxUsers == 3
MaxBets == 1
MaxWagers == 2
MaxResolves == 1
MaxPool == 12
MaxCalls == 2

(* ------------------------- input domains ------------------------------ *)
StartingBalances == {-1, 0, 22}
Amounts == {0, 7, 15}
Devices == {"dev1", "dev2"}
AdminDevices == {"dev1"}
AdminProfiles == {<<"Admin", "a0">>}
Profiles == {<<"Alice", "a1">>, <<"Bob", "a2">>}
Descriptions == {"d1"}
OddsLabels == {<<"3", ":", "1">>, <<"3", ":", "0">>}
Sides == {"Yes", "No"}
MarketStatus == {"Draft", "Open", "Closed", "Resolved"}
BetStatus == {"Pending", "Active", "ResolvedYes", "ResolvedNo", "Challenged"}
\* Option<T>: None is the empty sequence, Some(x) the one-element sequence
None == <<>>

Some(x) ==
    <<x>>

MarketIds == 1..MaxMarkets
UserIds == 1..MaxUsers
BetIds == 1..MaxBets

(* ------------------- IEEE-754 binary64 arithmetic ---------------------- *)
(* Exact evaluation of `(a as f64 / b as f64 * c as f64) as i64` for      *)
(* naturals a, c and positive b small enough to be exact in binary64       *)
(* (2*b*c < 2^53): the quotient is rounded to nearest-even, the product is *)
(* rounded again, and the cast truncates toward zero.                      *)
RECURSIVE Pow2(_)
Pow2(n) ==
    IF n <= 0 THEN 1 ELSE 2 * Pow2(n - 1)

RECURSIVE PowMod2(_, _)
PowMod2(e, m) ==
    IF e <= 0 THEN 1 % m ELSE (2 * PowMod2(e - 1, m)) % m

RECURSIVE Log2Floor(_)
Log2Floor(n) ==
    IF n <= 1 THEN 0 ELSE 1 + Log2Floor(n \div 2)

RECURSIVE ShiftUp(_, _, _)
ShiftUp(a, b, s) ==
    IF a * Pow2(s) >= b THEN s ELSE ShiftUp(a, b, s + 1)

RECURSIVE ShiftDown(_, _, _)
ShiftDown(a, b, t) ==
    IF a < 2 * b * Pow2(t) THEN t ELSE ShiftDown(a, b, t + 1)

\* s with b <= a * 2^s < 2b: the binary exponent of the quotient a/b is -s
F64QuotShift(a, b) ==
    IF a < b THEN ShiftUp(a, b, 0) ELSE 0 - ShiftDown(a, b, 0)

\* b * (RN(a/b) - a/b) * 2^(52+s): the signed rounding error of the
\* 53-bit quotient, scaled to an integer of magnitude at most b/2
F64QuotErr(a, b) ==
    LET k == 52 + F64QuotShift(a, b)
        r == (a * PowMod2(k, b)) % b
        low == ((a * PowMod2(k, 2 * b)) % (2 * b)) \div b
    IN  IF 2 * r > b \/ (2 * r = b /\ low = 1) THEN b - r ELSE 0 - r

F64DivMulTrunc(a, b, c) ==
    IF a = 0 \/ c = 0 THEN 0
    ELSE LET F == (a * c) \div b
             rho == (a * c) % b
             d == F64QuotErr(a, b)
             e == Log2Floor(F)
             p2 == IF F = Pow2(e) THEN 1 ELSE 0
             ex == F64QuotShift(a, b) + e + 2 - p2
         IN  IF rho # 0 \/ d >= 0 THEN F
             \* the rounded quotient is below a/b and a*c/b is the integer
             \* F: the product lands below F unless it is within half an
             \* ulp of F, in which case it rounds (to even) up to F
             ELSE IF 8 * (0 - d) * c > b * Pow2(ex) THEN F - 1 ELSE F

RECURSIVE Gcd(_, _)
Gcd(m, n) ==
    IF n = 0 THEN m ELSE Gcd(n, m % n)

\* a binary64 quotient of two small naturals, kept as the reduced fraction
\* it is the nearest double of (distinct fractions have distinct doubles)
F64Ratio(n, d) ==
    LET g == Gcd(n, d) IN <<n \div g, d \div g>>

(* --------------------------- parimutuel.rs ----------------------------- *)
\* variant: the empty pools give probability 0
calculate_probability_empty_is_zero(yes_pool, no_pool) ==
    LET total == yes_pool + no_pool
    IN  IF total = 0 THEN <<0, 1>> ELSE F64Ratio(yes_pool, total)

calculate_probability(yes_pool, no_pool) ==
    LET total == yes_pool + no_pool
    IN  IF total = 0 THEN <<1, 2>> ELSE F64Ratio(yes_pool, total)

\* variant: the stake is added to both pools
calculate_potential_payout_both_pools(current_yes_pool, current_no_pool, side, amount) ==
    <<current_yes_pool + amount, current_no_pool + amount, amount>>

\* variant: the stake of a NO wager is added to the YES pool
calculate_potential_payout_yes_only(current_yes_pool, current_no_pool, side, amount) ==
    <<current_yes_pool + amount, current_no_pool, 0>>

calculate_potential_payout(current_yes_pool, current_no_pool, side, amount) ==
    LET new_yes_pool == IF side = "Yes" THEN current_yes_pool + amount ELSE current_yes_pool
        new_no_pool == IF side = "Yes" THEN current_no_pool ELSE current_no_pool + amount
        total_pool == new_yes_pool + new_no_pool
        winning_pool == IF side = "Yes" THEN new_yes_pool ELSE new_no_pool
    IN  IF winning_pool = 0 THEN <<new_yes_pool, new_no_pool, 0>>
        ELSE <<new_yes_pool, new_no_pool, F64DivMulTrunc(amount, winning_pool, total_pool)>>

RECURSIVE SumAmounts(_, _, _)
\* total amount of the wagers of sequence ws on side sd placed by user u
SumAmounts(ws, u, sd) ==
    IF ws = <<>> THEN 0
    ELSE (IF Head(ws).user_id = u /\ Head(ws).side = sd THEN Head(ws).amount ELSE 0)
         + SumAmounts(Tail(ws), u, sd)

\* variant: a winner gets the stake back and nothing of the losing pool
calculate_payouts_stake_only(bet, ws) ==
    IF bet.status \notin {"ResolvedYes", "ResolvedNo"} THEN <<>>
    ELSE LET winning_side == IF bet.status = "ResolvedYes" THEN "Yes" ELSE "No"
             winners == {ws[i].user_id : i \in {j \in DOMAIN ws : ws[j].side = winning_side}}
         IN  [u \in winners |-> SumAmounts(ws, u, winning_side)]

\* variant: with an empty winning pool every wagerer gets the stake back
calculate_payouts_refunds_empty_pool(bet, ws) ==
    IF bet.status \notin {"ResolvedYes", "ResolvedNo"} THEN <<>>
    ELSE LET winning_side == IF bet.status = "ResolvedYes" THEN "Yes" ELSE "No"
             losing_side == IF bet.status = "ResolvedYes" THEN "No" ELSE "Yes"
             total_pool == bet.yes_pool + bet.no_pool
             winning_pool == IF winning_side = "Yes" THEN bet.yes_pool ELSE bet.no_pool
             winners == {ws[i].user_id : i \in {j \in DOMAIN ws : ws[j].side = winning_side}}
         IN  IF winning_pool = 0
             THEN [u \in {ws[i].user_id : i \in DOMAIN ws} |-> SumAmounts(ws, u, losing_side)]
             ELSE [u \in winners |->
                      F64DivMulTrunc(SumAmounts(ws, u, winning_side), winning_pool, total_pool)]

\* the payout map (user id -> payout); the order of the returned list is
\* the iteration order of a HashMap and carries no meaning
calculate_payouts(bet, ws) ==
    IF bet.status \notin {"ResolvedYes", "ResolvedNo"} THEN <<>>
    ELSE LET winning_side == IF bet.status = "ResolvedYes" THEN "Yes" ELSE "No"
             total_pool == bet.yes_pool + bet.no_pool
             winning_pool == IF winning_side = "Yes" THEN bet.yes_pool ELSE bet.no_pool
             winners == {ws[i].user_id : i \in {j \in DOMAIN ws : ws[j].side = winning_side}}
         IN  IF winning_pool = 0 THEN <<>>
             ELSE [u \in winners |->
                      F64DivMulTrunc(SumAmounts(ws, u, winning_side), winning_pool, total_pool)]

\* `str.parse::<i64>()` on a string given as its sequence of characters:
\* an optional sign followed by at least one decimal digit
Digits == <<"0", "1", "2", "3", "4", "5", "6", "7", "8", "9">>

DigitValue(ch) ==
    (CHOOSE i \in DOMAIN Digits : Digits[i] = ch) - 1

RECURSIVE DigitsValue(_)
DigitsValue(t) ==
    IF t = <<>> THEN 0
    ELSE 10 * DigitsValue(SubSeq(t, 1, Len(t) - 1)) + DigitValue(t[Len(t)])

IsDigits(t) ==
    t # <<>> /\ \A i \in DOMAIN t : \E j \in DOMAIN Digits : Digits[j] = t[i]

ParseI64(t) ==
    IF t = <<>> THEN None
    ELSE IF Head(t) \in {"+", "-"}
         THEN IF IsDigits(Tail(t))
              THEN (IF Head(t) = "-" THEN Some(0 - DigitsValue(Tail(t)))
                    ELSE Some(DigitsValue(Tail(t))))
              ELSE None
         ELSE IF IsDigits(t) THEN Some(DigitsValue(t)) ELSE None

\* variant: the opening wager is split between the pools as the label says
parse_initial_odds_by_ratio(odds, opening_wager) ==
    LET colons == {i \in DOMAIN odds : odds[i] = ":"}
    IN  IF Cardinality(colons) # 1 THEN None
        ELSE LET p == CHOOSE i \in colons : TRUE
                 yes_ratio == ParseI64(SubSeq(odds, 1, p - 1))
                 no_ratio == ParseI64(SubSeq(odds, p + 1, Len(odds)))
             IN  IF yes_ratio = None \/ no_ratio = None THEN None
                 ELSE IF yes_ratio[1] = 0 \/ no_ratio[1] = 0 THEN None
                 ELSE LET yes == (opening_wager * yes_ratio[1]) \div (yes_ratio[1] + no_ratio[1])
                      IN  Some(<<yes, opening_wager - yes>>)

parse_initial_odds(odds, opening_wager) ==
    LET colons == {i \in DOMAIN odds : odds[i] = ":"}
    IN  IF Cardinality(colons) # 1 THEN None
        ELSE LET p == CHOOSE i \in colons : TRUE
                 yes_ratio == ParseI64(SubSeq(odds, 1, p - 1))
                 no_ratio == ParseI64(SubSeq(odds, p + 1, Len(odds)))
             IN  IF yes_ratio = None \/ no_ratio = None THEN None
                 ELSE IF yes_ratio[1] = 0 \/ no_ratio[1] = 0 THEN None
                 ELSE Some(<<opening_wager, 0>>)

(* ------------------------------ rules.rs ------------------------------- *)
\* variant: the balance is not compared with the amount
validate_wager_no_balance_check(market, bet, user, amount) ==
    IF market.status # "Open" THEN "MarketNotOpen"
    ELSE IF bet.status # "Active" THEN "BetNotActive"
    ELSE IF amount <= 0 THEN "InvalidAmount"
    ELSE IF bet.subject_user_id = user.id THEN "CannotBetOnSelf"
    ELSE "Ok"

\* variant: the subject of the bet is not compared with the user
validate_wager_no_self_check(market, bet, user, amount) ==
    IF market.status # "Open" THEN "MarketNotOpen"
    ELSE IF bet.status # "Active" THEN "BetNotActive"
    ELSE IF user.balance < amount THEN "InsufficientBalance"
    ELSE IF amount <= 0 THEN "InvalidAmount"
    ELSE "Ok"

\* variant: the status of the bet is not consulted
validate_wager_no_bet_status_check(market, bet, user, amount) ==
    IF market.status # "Open" THEN "MarketNotOpen"
    ELSE IF user.balance < amount THEN "InsufficientBalance"
    ELSE IF amount <= 0 THEN "InvalidAmount"
    ELSE IF bet.subject_user_id = user.id THEN "CannotBetOnSelf"
    ELSE "Ok"

validate_wager(market, bet, user, amount) ==
    IF market.status # "Open" THEN "MarketNotOpen"
    ELSE IF bet.status # "Active" THEN "BetNotActive"
    ELSE IF user.balance < amount THEN "InsufficientBalance"
    ELSE IF amount <= 0 THEN "InvalidAmount"
    ELSE IF bet.subject_user_id = user.id THEN "CannotBetOnSelf"
    ELSE "Ok"

\* variant: a creator may not name itself as the subject
validate_bet_creation_rejects_self(market, user, subject_user_id, opening_wager) ==
    IF market.status # "Draft" /\ market.status # "Open" THEN "InvalidMarketStatus"
    ELSE IF user.balance < opening_wager THEN "InsufficientBalance"
    ELSE IF opening_wager <= 0 THEN "InvalidAmount"
    ELSE IF subject_user_id = user.id THEN "CannotBetOnSelf"
    ELSE "Ok"

validate_bet_creation(market, user, subject_user_id, opening_wager) ==
    IF market.status # "Draft" /\ market.status # "Open" THEN "InvalidMarketStatus"
    ELSE IF user.balance < opening_wager THEN "InsufficientBalance"
    ELSE IF opening_wager <= 0 THEN "InvalidAmount"
    ELSE "Ok"

\* variant: the admin flag is not consulted
validate_bet_approval_anyone(user) ==
    "Ok"

validate_bet_approval(user) ==
    IF ~user.is_admin THEN "AdminOnly" ELSE "Ok"

\* variant: the market must be Closed, the check the source has commented out
validate_bet_resolution_closed_market_only(market, bet, user) ==
    IF ~user.is_admin THEN "AdminOnly"
    ELSE IF market.status # "Closed" THEN "InvalidMarketStatus"
    ELSE IF bet.status # "Active"
         THEN (IF bet.status = "ResolvedYes" \/ bet.status = "ResolvedNo"
               THEN "AlreadyResolved" ELSE "BetNotActive")
    ELSE "Ok"

\* variant: the status of the bet is not consulted
validate_bet_resolution_no_status_check(market, bet, user) ==
    IF ~user.is_admin THEN "AdminOnly" ELSE "Ok"

validate_bet_resolution(market, bet, user) ==
    IF ~user.is_admin THEN "AdminOnly"
    ELSE IF bet.status # "Active"
         THEN (IF bet.status = "ResolvedYes" \/ bet.status = "ResolvedNo"
               THEN "AlreadyResolved" ELSE "BetNotActive")
    ELSE "Ok"

(* ------------------------------ models.rs ------------------------------ *)
\* variant: the status of the bet is not consulted
to_view_ignores_status(bet, viewing_user_id) ==
    LET is_hidden == bet.hide_from_subject /\ bet.subject_user_id = viewing_user_id
    IN  [id |-> bet.id,
         market_id |-> bet.market_id,
         is_hidden |-> is_hidden,
         subject_user_id |-> IF is_hidden THEN None ELSE Some(bet.subject_user_id),
         description |-> IF is_hidden THEN None ELSE Some(bet.description),
         created_by |-> bet.created_by,
         initial_odds |-> bet.initial_odds,
         status |-> bet.status,
         yes_pool |-> bet.yes_pool,
         no_pool |-> bet.no_pool,
         resolved_at |-> bet.resolved_at]

to_view(bet, viewing_user_id) ==
    LET is_hidden == /\ bet.hide_from_subject
                     /\ bet.subject_user_id = viewing_user_id
                     /\ bet.status # "ResolvedYes"
                     /\ bet.status # "ResolvedNo"
                     /\ bet.status # "Challenged"
    IN  [id |-> bet.id,
         market_id |-> bet.market_id,
         is_hidden |-> is_hidden,
         subject_user_id |-> IF is_hidden THEN None ELSE Some(bet.subject_user_id),
         description |-> IF is_hidden THEN None ELSE Some(bet.description),
         created_by |-> bet.created_by,
         initial_odds |-> bet.initial_odds,
         status |-> bet.status,
         yes_pool |-> bet.yes_pool,
         no_pool |-> bet.no_pool,
         resolved_at |-> bet.resolved_at]

(* ------------------------- storage (db/sqlite.rs) ---------------------- *)
\* The tables of the storage collaborator.  Rows are kept in insertion
\* order and a fresh Uuid is the position of the new row; `now` is the
\* clock that stamps resolutions.  `result` is the DbResult of the last
\* service call and `resolutions` the list of the payouts that resolve_bet
\* has returned so far, one entry per successful call.  `calls` holds the
\* service calls that are in flight: a call that runs concurrently with
\* others gives way at each `.await` of a storage call and keeps what it has
\* read so far; a call that runs alone is a single step and never appears.
\* `broadcasts` is the channel of api/websocket.rs: the messages the route
\* handlers have sent, each of which goes to every connected client.
VARIABLES markets, users, bets, wagers, now, result, resolutions, calls, broadcasts

vars == <<markets, users, bets, wagers, now, result, resolutions, calls, broadcasts>>

db == <<markets, users, bets, wagers, now, resolutions>>

\* Ok(value): the value with the operation that returned it
OkResult(op, value) ==
    [kind |-> "Ok", op |-> op, err |-> "", value |-> value]

\* Err(DbError): the error kind and its message
ErrResult(op, kind, err) ==
    [kind |-> kind, op |-> "", err |-> err, value |-> <<>>]

\* variant: no row matches an invite code
get_market_by_invite_code_none(code) ==
    {}

get_market_by_invite_code(code) ==
    {m \in DOMAIN markets : markets[m].invite_code = code}

\* variant: the device id is compared with the wrong column
get_user_by_device_id_wrong_column(market_id, device_id) ==
    {u \in DOMAIN users : users[u].market_id = market_id /\ users[u].display_name = device_id}

get_user_by_device_id(market_id, device_id) ==
    {u \in DOMAIN users : users[u].market_id = market_id /\ users[u].device_id = device_id}

get_bets_in_market(market_id) ==
    SelectSeq(bets, LAMBDA b : b.market_id = market_id)

RECURSIVE Reverse(_)
Reverse(sq) ==
    IF sq = <<>> THEN <<>> ELSE Append(Reverse(Tail(sq)), Head(sq))

\* variant: ORDER BY placed_at DESC
get_wagers_for_bet_newest_first(bet_id) ==
    Reverse(SelectSeq(wagers, LAMBDA w : w.bet_id = bet_id))

\* SELECT * FROM wagers WHERE bet_id = ? ORDER BY placed_at: the rows of the
\* table are kept in the order of their placed_at stamps
get_wagers_for_bet(bet_id) ==
    SelectSeq(wagers, LAMBDA w : w.bet_id = bet_id)

RECURSIVE AmountOf(_)
\* the sum of the amounts of a sequence of wagers
AmountOf(ws) ==
    IF ws = <<>> THEN 0 ELSE Head(ws).amount + AmountOf(Tail(ws))

\* variant: the balance written is the starting balance less the amounts of
\* the wagers the table holds for the user
update_user_balance_recounted(us, user_id, new_balance) ==
    [u \in DOMAIN us |->
        IF u = user_id
        THEN [us[u] EXCEPT !.balance = markets[us[u].market_id].starting_balance
                               - AmountOf(SelectSeq(wagers, LAMBDA w : w.user_id = u))]
        ELSE us[u]]

\* variant: the WHERE clause is missing and every row gets the balance
update_user_balance_all(us, user_id, new_balance) ==
    [u \in DOMAIN us |-> [us[u] EXCEPT !.balance = new_balance]]

update_user_balance(us, user_id, new_balance) ==
    [u \in DOMAIN us |-> IF u = user_id THEN [us[u] EXCEPT !.balance = new_balance] ELSE us[u]]

\* variant: resolved_at is stamped whatever the status is
update_bet_status_always_stamps(bs, bet_id, status, at) ==
    [b \in DOMAIN bs |->
        IF b = bet_id THEN [bs[b] EXCEPT !.status = status, !.resolved_at = Some(at)]
        ELSE bs[b]]

\* UPDATE bets SET status = ?, resolved_at = ? WHERE id = ?
update_bet_status(bs, bet_id, status, at) ==
    LET resolved_at == IF status \in {"ResolvedYes", "ResolvedNo"} THEN Some(at) ELSE None
    IN  [b \in DOMAIN bs |->
            IF b = bet_id THEN [bs[b] EXCEPT !.status = status, !.resolved_at = resolved_at]
            ELSE bs[b]]

\* variant: the pools written are the sums of the wagers the table holds
update_bet_pools_recounted(bs, bet_id, yes_pool, no_pool) ==
    [b \in DOMAIN bs |->
        IF b = bet_id
        THEN [bs[b] EXCEPT
                 !.yes_pool = AmountOf(SelectSeq(wagers, LAMBDA w : w.bet_id = b /\ w.side = "Yes")),
                 !.no_pool = AmountOf(SelectSeq(wagers, LAMBDA w : w.bet_id = b /\ w.side = "No"))]
        ELSE bs[b]]

\* variant: the two pools are bound to the wrong columns
update_bet_pools_swapped(bs, bet_id, yes_pool, no_pool) ==
    [b \in DOMAIN bs |->
        IF b = bet_id THEN [bs[b] EXCEPT !.yes_pool = no_pool, !.no_pool = yes_pool]
        ELSE bs[b]]

update_bet_pools(bs, bet_id, yes_pool, no_pool) ==
    [b \in DOMAIN bs |->
        IF b = bet_id THEN [bs[b] EXCEPT !.yes_pool = yes_pool, !.no_pool = no_pool]
        ELSE bs[b]]

update_market_status(ms, id, status) ==
    [m \in DOMAIN ms |-> IF m = id THEN [ms[m] EXCEPT !.status = status] ELSE ms[m]]

(* ------------------------------ service.rs ----------------------------- *)
UpperAlnum ==
    {"A", "B", "C", "D", "E", "F", "G", "H", "I", "J", "K", "L", "M", "N", "O", "P", "Q",
     "R", "S", "T", "U", "V", "W", "X", "Y", "Z",
     "0", "1", "2", "3", "4", "5", "6", "7", "8", "9"}

IsValidCustomCode(code) ==
    Len(code) = 6 /\ \A i \in DOMAIN code : code[i] \in UpperAlnum

Init ==
    /\ calls = <<>>
    /\ broadcasts = <<>>
    /\ markets = <<>>
    /\ users = <<>>
    /\ bets = <<>>
    /\ wagers = <<>>
    /\ now = 0
    /\ resolutions = <<>>
    /\ result = OkResult("new", <<>>)

CreateMarket(custom_invite_code, generated, admin_device_id, profile, starting_balance) ==
    LET market_id == Len(markets) + 1
        admin_id == Len(users) + 1
        invite_code == IF custom_invite_code # None /\ IsValidCustomCode(custom_invite_code[1])
                       THEN custom_invite_code[1] ELSE generated
        market == [id |-> market_id, status |-> "Draft", created_by |-> admin_id,
                   starting_balance |-> starting_balance, invite_code |-> invite_code]
        admin == [id |-> admin_id, market_id |-> market_id, device_id |-> admin_device_id,
                  display_name |-> profile[1], avatar |-> profile[2],
                  balance |-> starting_balance, is_admin |-> TRUE]
    IN  IF get_market_by_invite_code(invite_code) # {}
        THEN \* UNIQUE(invite_code) rejects the insert
             /\ result' = ErrResult("create_market", "Internal", "")
             /\ UNCHANGED <<db, calls>>
        ELSE /\ Len(markets) < MaxMarkets
             /\ Len(users) < MaxUsers
             /\ markets' = Append(markets, market)
             /\ users' = Append(users, admin)
             /\ result' = OkResult("create_market", <<market, admin>>)
             /\ UNCHANGED <<bets, wagers, now, resolutions, calls>>

\* variant: the user that joins is stored with the admin flag
JoinMarket_as_admin(invite_code, device_id, profile) ==
    LET found == get_market_by_invite_code(invite_code)
    IN  IF found = {}
        THEN /\ result' = ErrResult("join_market", "NotFound", "")
             /\ UNCHANGED <<db, calls>>
        ELSE LET market == markets[CHOOSE m \in found : TRUE]
                 user == [id |-> Len(users) + 1, market_id |-> market.id,
                          device_id |-> device_id,
                          display_name |-> profile[1], avatar |-> profile[2],
                          balance |-> market.starting_balance, is_admin |-> TRUE]
             IN  /\ Len(users) < MaxUsers
                 /\ get_user_by_device_id(market.id, device_id) = {}
                 /\ users' = Append(users, user)
                 /\ result' = OkResult("join_market", <<market, user>>)
                 /\ UNCHANGED <<markets, bets, wagers, now, resolutions, calls>>

JoinMarket(invite_code, device_id, profile) ==
    LET found == get_market_by_invite_code(invite_code)
    IN  IF found = {}
        THEN /\ result' = ErrResult("join_market", "NotFound", "")
             /\ UNCHANGED <<db, calls>>
        ELSE LET market == markets[CHOOSE m \in found : TRUE]
                 existing == get_user_by_device_id(market.id, device_id)
                 user == [id |-> Len(users) + 1, market_id |-> market.id,
                          device_id |-> device_id,
                          display_name |-> profile[1], avatar |-> profile[2],
                          balance |-> market.starting_balance, is_admin |-> FALSE]
             IN  IF existing # {}
                 THEN /\ result' = OkResult("join_market",
                                            <<market, users[CHOOSE u \in existing : TRUE]>>)
                      /\ UNCHANGED <<db, calls>>
                 ELSE /\ Len(users) < MaxUsers
                      /\ users' = Append(users, user)
                      /\ result' = OkResult("join_market", <<market, user>>)
                      /\ UNCHANGED <<markets, bets, wagers, now, resolutions, calls>>

CreateBet(market_id, creator_id, subject_user_id, description, initial_odds, opening_wager, hide_from_subject) ==
    IF market_id \notin DOMAIN markets
    THEN result' = ErrResult("create_bet", "NotFound", "Market") /\ UNCHANGED <<db, calls>>
    ELSE IF creator_id \notin DOMAIN users
    THEN result' = ErrResult("create_bet", "NotFound", "User") /\ UNCHANGED <<db, calls>>
    ELSE LET market == markets[market_id]
             creator == users[creator_id]
             verdict == validate_bet_creation(market, creator, subject_user_id, opening_wager)
             pools == parse_initial_odds(initial_odds, opening_wager)
         IN  IF verdict # "Ok"
             THEN result' = ErrResult("create_bet", "Constraint", verdict) /\ UNCHANGED <<db, calls>>
             ELSE IF pools = None
             THEN result' = ErrResult("create_bet", "Constraint", "InvalidOdds")
                  /\ UNCHANGED <<db, calls>>
             ELSE IF subject_user_id \notin DOMAIN users
             THEN \* FOREIGN KEY (subject_user_id) REFERENCES users(id)
                  result' = ErrResult("create_bet", "Internal", "") /\ UNCHANGED <<db, calls>>
             ELSE LET yes_pool == pools[1][1]
                      no_pool == pools[1][2]
                      bet == [id |-> Len(bets) + 1, market_id |-> market_id,
                              subject_user_id |-> subject_user_id,
                              created_by |-> creator_id,
                              description |-> description,
                              initial_odds |-> initial_odds,
                              status |-> "Active",
                              yes_pool |-> yes_pool, no_pool |-> no_pool,
                              hide_from_subject |-> hide_from_subject,
                              resolved_at |-> None]
                      opening_wager_record ==
                             [bet_id |-> bet.id, user_id |-> creator_id, side |-> "Yes",
                              amount |-> opening_wager,
                              yes_pool_after |-> yes_pool, no_pool_after |-> no_pool,
                              probability_after |-> calculate_probability(yes_pool, no_pool)]
                  IN  /\ Len(bets) < MaxBets
                      /\ Len(wagers) < MaxWagers
                      /\ bets' = Append(bets, bet)
                      /\ wagers' = Append(wagers, opening_wager_record)
                      /\ users' = update_user_balance(users, creator_id,
                                                      creator.balance - opening_wager)
                      /\ result' = OkResult("create_bet", bet)
                      /\ UNCHANGED <<markets, now, resolutions, calls>>

\* SELECT * FROM bets WHERE market_id = ? AND status = 'pending'
get_pending_bets(market_id) ==
    SelectSeq(bets, LAMBDA b : b.market_id = market_id /\ b.status = "Pending")

\* variant: the status written is Pending
ApproveBet_writes_pending(bet_id, admin_id) ==
    IF admin_id \notin DOMAIN users
    THEN result' = ErrResult("approve_bet", "NotFound", "User") /\ UNCHANGED <<db, calls>>
    ELSE LET verdict == validate_bet_approval(users[admin_id])
         IN  IF verdict # "Ok"
             THEN result' = ErrResult("approve_bet", "Constraint", verdict) /\ UNCHANGED <<db, calls>>
             ELSE /\ bets' = update_bet_status(bets, bet_id, "Pending", now)
                  /\ result' = IF bet_id \in DOMAIN bets
                               THEN OkResult("approve_bet", bets'[bet_id])
                               ELSE ErrResult("approve_bet", "NotFound", "Bet")
                  /\ UNCHANGED <<markets, users, wagers, now, resolutions, calls>>

ApproveBet(bet_id, admin_id) ==
    IF admin_id \notin DOMAIN users
    THEN result' = ErrResult("approve_bet", "NotFound", "User") /\ UNCHANGED <<db, calls>>
    ELSE LET verdict == validate_bet_approval(users[admin_id])
         IN  IF verdict # "Ok"
             THEN result' = ErrResult("approve_bet", "Constraint", verdict) /\ UNCHANGED <<db, calls>>
             ELSE /\ bets' = update_bet_status(bets, bet_id, "Active", now)
                  /\ result' = IF bet_id \in DOMAIN bets
                               THEN OkResult("approve_bet", bets'[bet_id])
                               ELSE ErrResult("approve_bet", "NotFound", "Bet")
                  /\ UNCHANGED <<markets, users, wagers, now, resolutions, calls>>

PlaceWager(bet_id, user_id, side, amount) ==
    IF bet_id \notin DOMAIN bets
    THEN result' = ErrResult("place_wager", "NotFound", "Bet") /\ UNCHANGED <<db, calls>>
    ELSE IF user_id \notin DOMAIN users
    THEN result' = ErrResult("place_wager", "NotFound", "User") /\ UNCHANGED <<db, calls>>
    ELSE LET bet == bets[bet_id]
             market == markets[bet.market_id]
             user == users[user_id]
             verdict == validate_wager(market, bet, user, amount)
             after == calculate_potential_payout(bet.yes_pool, bet.no_pool, side, amount)
             yes_pool_after == after[1]
             no_pool_after == after[2]
             wager == [bet_id |-> bet_id, user_id |-> user_id, side |-> side,
                       amount |-> amount,
                       yes_pool_after |-> yes_pool_after, no_pool_after |-> no_pool_after,
                       probability_after |->
                           calculate_probability(yes_pool_after, no_pool_after)]
         IN  IF verdict # "Ok"
             THEN result' = ErrResult("place_wager", "Constraint", verdict) /\ UNCHANGED <<db, calls>>
             ELSE /\ Len(wagers) < MaxWagers
                  /\ wagers' = Append(wagers, wager)
                  /\ bets' = update_bet_pools(bets, bet_id, yes_pool_after, no_pool_after)
                  /\ users' = update_user_balance(users, user_id, user.balance - amount)
                  /\ result' = OkResult("place_wager", wager)
                  /\ UNCHANGED <<markets, now, resolutions, calls>>

ResolveBet(bet_id, admin_id, outcome) ==
    IF bet_id \notin DOMAIN bets
    THEN result' = ErrResult("resolve_bet", "NotFound", "Bet") /\ UNCHANGED <<db, calls>>
    ELSE IF admin_id \notin DOMAIN users
    THEN result' = ErrResult("resolve_bet", "NotFound", "User") /\ UNCHANGED <<db, calls>>
    ELSE LET verdict == validate_bet_resolution(markets[bets[bet_id].market_id],
                                                bets[bet_id], users[admin_id])
             new_status == IF outcome = "Yes" THEN "ResolvedYes" ELSE "ResolvedNo"
             updated == update_bet_status(bets, bet_id, new_status, now + 1)
             payouts == calculate_payouts(updated[bet_id], get_wagers_for_bet(bet_id))
         IN  IF verdict # "Ok"
             THEN result' = ErrResult("resolve_bet", "Constraint", verdict) /\ UNCHANGED <<db, calls>>
             ELSE /\ now < MaxResolves
                  /\ now' = now + 1
                  /\ bets' = updated
                  /\ users' = [u \in DOMAIN users |->
                                  IF u \in DOMAIN payouts
                                  THEN [users[u] EXCEPT !.balance = @ + payouts[u]]
                                  ELSE users[u]]
                  /\ result' = OkResult("resolve_bet", payouts)
                  /\ resolutions' = Append(resolutions,
                                            [bet |-> updated[bet_id], payouts |-> payouts])
                  /\ UNCHANGED <<markets, wagers, calls>>

\* open_market, close_market and resolve_market differ only in the status
\* they write
SetMarketStatus(op, market_id, admin_id, status) ==
    IF admin_id \notin DOMAIN users
    THEN result' = ErrResult(op, "NotFound", "User") /\ UNCHANGED <<db, calls>>
    ELSE IF ~users[admin_id].is_admin
    THEN result' = ErrResult(op, "Constraint", "AdminOnly") /\ UNCHANGED <<db, calls>>
    ELSE /\ markets' = update_market_status(markets, market_id, status)
         /\ result' = OkResult(op, <<>>)
         /\ UNCHANGED <<users, bets, wagers, now, resolutions, calls>>

OpenMarket(market_id, admin_id) ==
    SetMarketStatus("open_market", market_id, admin_id, "Open")

CloseMarket(market_id, admin_id) ==
    SetMarketStatus("close_market", market_id, admin_id, "Closed")

ResolveMarket(market_id, admin_id) ==
    SetMarketStatus("resolve_market", market_id, admin_id, "Resolved")

\* get_bets: the bets of a market as seen by viewing_user_id
GetBets(market_id, viewing_user_id) ==
    LET found == get_bets_in_market(market_id)
    IN  /\ result' = OkResult("get_bets",
                               [i \in DOMAIN found |-> to_view(found[i], viewing_user_id)])
        /\ UNCHANGED <<db, calls>>

\* get_probability_chart: one point per wager of the bet, in the order of
\* get_wagers_for_bet, holding the probability the wager was stored with
GetProbabilityChart(bet_id) ==
    LET ws == get_wagers_for_bet(bet_id)
    IN  /\ result' = OkResult("get_probability_chart",
                               [i \in DOMAIN ws |-> [yes_probability |-> ws[i].probability_after]])
        /\ UNCHANGED <<db, calls>>

(* --------------------------- api/routes.rs ----------------------------- *)
\* SELECT * FROM users WHERE market_id = ? has no ORDER BY: the rows come in
\* an order the storage chooses, given here as `order`
RowOrders(market_id) ==
    LET ids == {u \in DOMAIN users : users[u].market_id = market_id}
    IN  {f \in [1..Cardinality(ids) -> ids] : \A i, j \in DOMAIN f : i # j => f[i] # f[j]}

get_users_in_market(order) ==
    [i \in DOMAIN order |-> users[order[i]]]

\* variant: the comparison is a.balance.cmp(&b.balance)
InsertByBalanceAsc(sorted, x) ==
    LET k == Cardinality({i \in DOMAIN sorted : sorted[i].balance <= x.balance})
    IN  SubSeq(sorted, 1, k) \o <<x>> \o SubSeq(sorted, k + 1, Len(sorted))

\* one step of the stable sort: x goes behind every row that does not
\* compare greater under b.balance.cmp(&a.balance)
InsertByBalanceDesc(sorted, x) ==
    LET k == Cardinality({i \in DOMAIN sorted : sorted[i].balance >= x.balance})
    IN  SubSeq(sorted, 1, k) \o <<x>> \o SubSeq(sorted, k + 1, Len(sorted))

RECURSIVE SortByBalanceDesc(_)
\* users.sort_by(|a, b| b.balance.cmp(&a.balance)), a stable sort
SortByBalanceDesc(rows) ==
    IF rows = <<>> THEN <<>>
    ELSE InsertByBalanceDesc(SortByBalanceDesc(SubSeq(rows, 1, Len(rows) - 1)), rows[Len(rows)])

GetLeaderboard(market_id, order) ==
    IF market_id \notin DOMAIN markets
    THEN result' = ErrResult("get_leaderboard", "NotFound", "Market") /\ UNCHANGED <<db, calls>>
    ELSE LET market == markets[market_id]
             sorted == SortByBalanceDesc(get_users_in_market(order))
         IN  /\ result' = OkResult("get_leaderboard",
                                   [i \in DOMAIN sorted |->
                                       [user |-> sorted[i],
                                        profit |-> sorted[i].balance - market.starting_balance,
                                        rank |-> i]])
             /\ UNCHANGED <<db, calls>>

(* ------------------------------ the system ----------------------------- *)
CustomCodes == {None, Some(<<"A", "B", "C", "D", "E", "F">>), Some(<<"a", "b", "c">>)}

GeneratedCodes == {<<"A", "B", "C", "D", "E", "F">>}

JoinCodes == GeneratedCodes \cup {<<"Z", "Z", "Z", "Z", "Z", "Z">>}

DoCreateMarket ==
    \E c \in CustomCodes, g \in GeneratedCodes, d \in AdminDevices, p \in AdminProfiles,
       sb \in StartingBalances : CreateMarket(c, g, d, p, sb) /\ UNCHANGED broadcasts

DoJoinMarket ==
    \E c \in JoinCodes, d \in Devices, p \in Profiles : JoinMarket(c, d, p) /\ UNCHANGED broadcasts

DoCreateBet ==
    \E m \in MarketIds, c \in UserIds, s \in UserIds, d \in Descriptions, o \in OddsLabels,
       w \in Amounts, h \in BOOLEAN : CreateBet(m, c, s, d, o, w, h) /\ UNCHANGED broadcasts

DoApproveBet ==
    \E b \in BetIds, a \in UserIds : ApproveBet(b, a) /\ UNCHANGED broadcasts

DoPlaceWager ==
    \E b \in BetIds, u \in UserIds, sd \in Sides, a \in Amounts : PlaceWager(b, u, sd, a) /\ UNCHANGED broadcasts

DoResolveBet ==
    \E b \in BetIds, a \in UserIds, o \in Sides : ResolveBet(b, a, o) /\ UNCHANGED broadcasts

DoOpenMarket ==
    \E m \in MarketIds, a \in UserIds : OpenMarket(m, a) /\ UNCHANGED broadcasts

DoCloseMarket ==
    \E m \in MarketIds, a \in UserIds : CloseMarket(m, a) /\ UNCHANGED broadcasts

DoResolveMarket ==
    \E m \in MarketIds, a \in UserIds : ResolveMarket(m, a) /\ UNCHANGED broadcasts

Next ==
    \/ DoCreateMarket
    \/ DoJoinMarket
    \/ DoCreateBet
    \/ DoApproveBet
    \/ DoPlaceWager
    \/ DoResolveBet
    \/ DoOpenMarket
    \/ DoCloseMarket
    \/ DoResolveMarket

Spec == Init /\ [][Next]_vars

(* ---------------- the visibility filter on arbitrary bets --------------- *)
\* to_view is a pure function of a stored bet and a viewer: here the bets
\* table holds one bet in any status, with or without the hide flag, about
\* either of two users, and get_bets is asked for by every viewer.
ViewPools == {0, 7}

\* the viewers asked for: the two users and an id that names no user
Viewers == {0, 1, 2}

ViewMarketIds == {1, 2}

ViewMarket ==
    [id |-> 1, status |-> "Open", created_by |-> 1, starting_balance |-> 22,
     invite_code |-> <<"A", "B", "C", "D", "E", "F">>]

ViewUser(id) ==
    [id |-> id, market_id |-> 1, device_id |-> IF id = 1 THEN "dev1" ELSE "dev2",
     display_name |-> IF id = 1 THEN "Admin" ELSE "Alice",
     avatar |-> IF id = 1 THEN "a0" ELSE "a1",
     balance |-> 22, is_admin |-> (id = 1)]

ViewBets ==
    {[id |-> 1, market_id |-> 1, subject_user_id |-> s, created_by |-> 1,
      description |-> d, initial_odds |-> <<"3", ":", "1">>, status |-> st,
      yes_pool |-> y, no_pool |-> n, hide_from_subject |-> h,
      resolved_at |-> IF st \in {"ResolvedYes", "ResolvedNo"} THEN Some(1) ELSE None] :
        s \in {1, 2}, d \in Descriptions, st \in BetStatus, y \in ViewPools,
        n \in ViewPools, h \in BOOLEAN}

InitView ==
    /\ calls = <<>>
    /\ broadcasts = <<>>
    /\ markets = <<ViewMarket>>
    /\ users = <<ViewUser(1), ViewUser(2)>>
    /\ bets \in {<<b>> : b \in ViewBets}
    /\ wagers = <<>>
    /\ now = 1
    /\ resolutions = <<>>
    /\ result = OkResult("new", <<>>)

DoGetBets ==
    \E m \in ViewMarketIds, v \in Viewers : GetBets(m, v) /\ UNCHANGED broadcasts

NextView ==
    DoGetBets

SpecView == InitView /\ [][NextView]_vars

(* ------------------- the lifecycle of one market ----------------------- *)
\* One market with starting balance 1000, its admin and the two users Alice
\* and Bob, wagers of 100 and 200, and the leaderboard asked for at any time.
RunStartingBalances == {1000}

RunAmounts == {100, 200}

RunJoiners == {<<"dev2", <<"Alice", "a1">>>>, <<"dev3", <<"Bob", "a2">>>>}

RunOddsLabels == {<<"1", ":", "1">>, <<"1", ":", "3">>}

DoRunCreateMarket ==
    \E g \in GeneratedCodes, d \in AdminDevices, p \in AdminProfiles, sb \in RunStartingBalances : CreateMarket(None, g, d, p, sb) /\ UNCHANGED broadcasts

DoRunJoinMarket ==
    \E c \in GeneratedCodes, j \in RunJoiners : JoinMarket(c, j[1], j[2]) /\ UNCHANGED broadcasts

DoRunOpenMarket ==
    \E m \in MarketIds, a \in UserIds : OpenMarket(m, a) /\ UNCHANGED broadcasts

DoRunCreateBet ==
    \E m \in MarketIds, c \in UserIds, sj \in UserIds, d \in Descriptions, o \in RunOddsLabels, w \in RunAmounts : CreateBet(m, c, sj, d, o, w, FALSE) /\ UNCHANGED broadcasts

DoRunPlaceWager ==
    \E b \in BetIds, u \in UserIds, sd \in Sides, a \in RunAmounts : PlaceWager(b, u, sd, a) /\ UNCHANGED broadcasts

DoRunResolveBet ==
    \E b \in BetIds, a \in UserIds, o \in Sides : ResolveBet(b, a, o) /\ UNCHANGED broadcasts

DoGetLeaderboard ==
    \E m \in MarketIds : \E order \in RowOrders(m) : GetLeaderboard(m, order) /\ UNCHANGED broadcasts

NextRun ==
    \/ DoRunCreateMarket
    \/ DoRunJoinMarket
    \/ DoRunOpenMarket
    \/ DoRunCreateBet
    \/ DoRunPlaceWager
    \/ DoRunResolveBet
    \/ DoGetLeaderboard

SpecRun == Init /\ [][NextRun]_vars

(* ----------------------------- two markets ----------------------------- *)
\* Two invite codes can be generated or asked for, so a second market can be
\* created beside the first; their starting balances may differ.
MktCodes == {<<"A", "B", "C", "D", "E", "F">>, <<"G", "H", "J", "K", "L", "M">>}

MktCustomCodes == {None} \cup {Some(c) : c \in MktCodes}

MktStartingBalances == {7, 22}

MktAmounts == {7}

MktOddsLabels == {<<"1", ":", "1">>}

DoMktCreateMarket ==
    \E c \in MktCustomCodes, g \in MktCodes, d \in AdminDevices, p \in AdminProfiles, sb \in MktStartingBalances : CreateMarket(c, g, d, p, sb) /\ UNCHANGED broadcasts

DoMktJoinMarket ==
    \E c \in MktCodes, d \in Devices, p \in Profiles : JoinMarket(c, d, p) /\ UNCHANGED broadcasts

\* the bets are those of the admin of the first market
MktCreators == {1}

DoMktCreateBet ==
    \E m \in MarketIds, c \in MktCreators, sj \in UserIds, d \in Descriptions, o \in MktOddsLabels, w \in MktAmounts : CreateBet(m, c, sj, d, o, w, FALSE) /\ UNCHANGED broadcasts

NextMarkets ==
    \/ DoMktCreateMarket
    \/ DoMktJoinMarket
    \/ DoMktCreateBet
    \/ DoOpenMarket
    \/ DoCloseMarket
    \/ DoResolveMarket

SpecMarkets == Init /\ [][NextMarkets]_vars

(* ------------------------- concurrent calls --------------------------- *)
\* The service holds no lock and opens no transaction: a call is a sequence
\* of storage calls, each awaited, and between two of them the storage calls
\* of other calls may run.  An entry of `calls` is a call in flight: `pc`
\* names the storage call it performs next, the other fields are its
\* arguments and the local variables it has bound so far.
RemoveAt(sq, i) ==
    SubSeq(sq, 1, i - 1) \o SubSeq(sq, i + 1, Len(sq))

\* variant: the users table is declared without UNIQUE(market_id, device_id)
users_unique_not_declared(us, user) ==
    FALSE

\* UNIQUE(market_id, device_id) of the users table rejects the insert of user
users_unique_violated(us, user) ==
    \E u \in DOMAIN us : us[u].market_id = user.market_id /\ us[u].device_id = user.device_id

\* join_market up to its first await: get_market_by_invite_code
JoinMarketBegin(invite_code, device_id, profile) ==
    LET found == get_market_by_invite_code(invite_code)
    IN  IF found = {}
        THEN /\ result' = ErrResult("join_market", "NotFound", "")
             /\ UNCHANGED <<db, calls>>
        ELSE /\ Len(calls) < MaxCalls
             /\ calls' = Append(calls, [op |-> "join_market", pc |-> "get_user_by_device_id",
                                         market |-> markets[CHOOSE m \in found : TRUE],
                                         device_id |-> device_id, profile |-> profile])
             /\ UNCHANGED <<db, result>>

\* `if let Ok(existing_user) = get_user_by_device_id(..)`: return the user
\* found, or go on to create one
JoinMarketGetUser(i) ==
    LET call == calls[i]
        existing == get_user_by_device_id(call.market.id, call.device_id)
    IN  /\ call.op = "join_market"
        /\ call.pc = "get_user_by_device_id"
        /\ IF existing # {}
           THEN /\ result' = OkResult("join_market",
                                       <<call.market, users[CHOOSE u \in existing : TRUE]>>)
                /\ calls' = RemoveAt(calls, i)
                /\ UNCHANGED db
           ELSE /\ calls' = [calls EXCEPT ![i].pc = "create_user"]
                /\ UNCHANGED <<db, result>>

\* create_user(user).await?
JoinMarketCreateUser(i) ==
    LET call == calls[i]
        user == [id |-> Len(users) + 1, market_id |-> call.market.id,
                 device_id |-> call.device_id,
                 display_name |-> call.profile[1], avatar |-> call.profile[2],
                 balance |-> call.market.starting_balance, is_admin |-> FALSE]
    IN  /\ call.op = "join_market"
        /\ call.pc = "create_user"
        /\ calls' = RemoveAt(calls, i)
        /\ IF users_unique_violated(users, user)
           THEN /\ result' = ErrResult("join_market", "Internal", "users.market_id, users.device_id")
                /\ UNCHANGED db
           ELSE /\ Len(users) < MaxUsers
                /\ users' = Append(users, user)
                /\ result' = OkResult("join_market", <<call.market, user>>)
                /\ UNCHANGED <<markets, bets, wagers, now, resolutions>>

DoJoinMarketBegin ==
    \E c \in MktCodes, d \in Devices, p \in Profiles : JoinMarketBegin(c, d, p) /\ UNCHANGED broadcasts

DoJoinMarketGetUser ==
    \E i \in DOMAIN calls : JoinMarketGetUser(i) /\ UNCHANGED broadcasts

DoJoinMarketCreateUser ==
    \E i \in DOMAIN calls : JoinMarketCreateUser(i) /\ UNCHANGED broadcasts

NextJoinRace ==
    \/ DoMktCreateMarket
    \/ DoJoinMarketBegin
    \/ DoJoinMarketGetUser
    \/ DoJoinMarketCreateUser

SpecJoinRace == Init /\ [][NextJoinRace]_vars

(* --------------- place_wager and create_bet, interleaved ---------------- *)
\* the number of calls of one operation that are in flight
InFlight(op) ==
    Cardinality({i \in DOMAIN calls : calls[i].op = op})

\* place_wager up to its first await: get_bet
PlaceWagerBegin(bet_id, user_id, side, amount) ==
    IF bet_id \notin DOMAIN bets
    THEN result' = ErrResult("place_wager", "NotFound", "Bet") /\ UNCHANGED <<db, calls>>
    ELSE /\ Len(calls) < MaxCalls
         /\ Len(wagers) + Len(calls) < MaxBets + MaxCalls
         /\ calls' = Append(calls, [op |-> "place_wager", pc |-> "get_market",
                                     bet_id |-> bet_id, user_id |-> user_id,
                                     side |-> side, amount |-> amount,
                                     bet |-> bets[bet_id], market |-> None,
                                     user |-> None, wager |-> None])
         /\ UNCHANGED <<db, result>>

\* get_market(bet.market_id).await?
PlaceWagerGetMarket(i) ==
    /\ calls[i].op = "place_wager"
    /\ calls[i].pc = "get_market"
    /\ calls' = [calls EXCEPT ![i].pc = "get_user",
                              ![i].market = markets[calls[i].bet.market_id]]
    /\ UNCHANGED <<db, result>>

\* get_user(user_id).await?, then validate_wager and the new pools, all
\* computed from what the call has read
PlaceWagerGetUser(i) ==
    LET call == calls[i]
    IN  /\ call.op = "place_wager"
        /\ call.pc = "get_user"
        /\ IF call.user_id \notin DOMAIN users
           THEN /\ result' = ErrResult("place_wager", "NotFound", "User")
                /\ calls' = RemoveAt(calls, i)
                /\ UNCHANGED db
           ELSE LET user == users[call.user_id]
                    verdict == validate_wager(call.market, call.bet, user, call.amount)
                    after == calculate_potential_payout(call.bet.yes_pool, call.bet.no_pool,
                                                        call.side, call.amount)
                    wager == [bet_id |-> call.bet_id, user_id |-> call.user_id,
                              side |-> call.side, amount |-> call.amount,
                              yes_pool_after |-> after[1], no_pool_after |-> after[2],
                              probability_after |-> calculate_probability(after[1], after[2])]
                IN  IF verdict # "Ok"
                    THEN /\ result' = ErrResult("place_wager", "Constraint", verdict)
                         /\ calls' = RemoveAt(calls, i)
                         /\ UNCHANGED db
                    ELSE /\ calls' = [calls EXCEPT ![i].pc = "create_wager",
                                                   ![i].user = user, ![i].wager = wager]
                         /\ UNCHANGED <<db, result>>

\* create_wager(wager).await?
PlaceWagerCreateWager(i) ==
    /\ calls[i].op = "place_wager"
    /\ calls[i].pc = "create_wager"
    /\ wagers' = Append(wagers, calls[i].wager)
    /\ calls' = [calls EXCEPT ![i].pc = "update_bet_pools"]
    /\ UNCHANGED <<markets, users, bets, now, resolutions, result>>

\* update_bet_pools(bet_id, yes_pool_after, no_pool_after).await?
PlaceWagerUpdateBetPools(i) ==
    /\ calls[i].op = "place_wager"
    /\ calls[i].pc = "update_bet_pools"
    /\ bets' = update_bet_pools(bets, calls[i].bet_id, calls[i].wager.yes_pool_after,
                                calls[i].wager.no_pool_after)
    /\ calls' = [calls EXCEPT ![i].pc = "update_user_balance"]
    /\ UNCHANGED <<markets, users, wagers, now, resolutions, result>>

\* update_user_balance(user_id, user.balance - amount).await?; Ok(wager)
PlaceWagerUpdateUserBalance(i) ==
    /\ calls[i].op = "place_wager"
    /\ calls[i].pc = "update_user_balance"
    /\ users' = update_user_balance(users, calls[i].user_id,
                                    calls[i].user.balance - calls[i].amount)
    /\ result' = OkResult("place_wager", calls[i].wager)
    /\ calls' = RemoveAt(calls, i)
    /\ UNCHANGED <<markets, bets, wagers, now, resolutions>>

\* create_bet up to its first await: get_market
CreateBetBegin(market_id, creator_id, subject_user_id, description, initial_odds, opening_wager, hide_from_subject) ==
    IF market_id \notin DOMAIN markets
    THEN result' = ErrResult("create_bet", "NotFound", "Market") /\ UNCHANGED <<db, calls>>
    ELSE /\ Len(calls) < MaxCalls
         /\ Len(bets) + InFlight("create_bet") < MaxBets
         /\ calls' = Append(calls, [op |-> "create_bet", pc |-> "get_user",
                                     market_id |-> market_id, creator_id |-> creator_id,
                                     subject_user_id |-> subject_user_id,
                                     description |-> description,
                                     initial_odds |-> initial_odds,
                                     opening_wager |-> opening_wager,
                                     hide_from_subject |-> hide_from_subject,
                                     market |-> markets[market_id],
                                     creator |-> None, bet |-> None])
         /\ UNCHANGED <<db, result>>

\* get_user(creator_id).await?, then validate_bet_creation and
\* parse_initial_odds
CreateBetGetUser(i) ==
    LET call == calls[i]
    IN  /\ call.op = "create_bet"
        /\ call.pc = "get_user"
        /\ IF call.creator_id \notin DOMAIN users
           THEN /\ result' = ErrResult("create_bet", "NotFound", "User")
                /\ calls' = RemoveAt(calls, i)
                /\ UNCHANGED db
           ELSE LET creator == users[call.creator_id]
                    verdict == validate_bet_creation(call.market, creator,
                                                     call.subject_user_id, call.opening_wager)
                    pools == parse_initial_odds(call.initial_odds, call.opening_wager)
                IN  IF verdict # "Ok"
                    THEN /\ result' = ErrResult("create_bet", "Constraint", verdict)
                         /\ calls' = RemoveAt(calls, i)
                         /\ UNCHANGED db
                    ELSE IF pools = None
                    THEN /\ result' = ErrResult("create_bet", "Constraint", "InvalidOdds")
                         /\ calls' = RemoveAt(calls, i)
                         /\ UNCHANGED db
                    ELSE /\ calls' = [calls EXCEPT ![i].pc = "create_bet",
                                                   ![i].creator = creator]
                         /\ UNCHANGED <<db, result>>

\* create_bet(bet).await?
CreateBetInsert(i) ==
    LET call == calls[i]
        pools == parse_initial_odds(call.initial_odds, call.opening_wager)
        bet == [id |-> Len(bets) + 1, market_id |-> call.market_id,
                subject_user_id |-> call.subject_user_id,
                created_by |-> call.creator_id,
                description |-> call.description,
                initial_odds |-> call.initial_odds,
                status |-> "Active",
                yes_pool |-> pools[1][1], no_pool |-> pools[1][2],
                hide_from_subject |-> call.hide_from_subject,
                resolved_at |-> None]
    IN  /\ call.op = "create_bet"
        /\ call.pc = "create_bet"
        /\ IF call.subject_user_id \notin DOMAIN users
           THEN \* FOREIGN KEY (subject_user_id) REFERENCES users(id)
                /\ result' = ErrResult("create_bet", "Internal", "")
                /\ calls' = RemoveAt(calls, i)
                /\ UNCHANGED db
           ELSE /\ Len(bets) < MaxBets
                /\ bets' = Append(bets, bet)
                /\ calls' = [calls EXCEPT ![i].pc = "create_wager", ![i].bet = bet]
                /\ UNCHANGED <<markets, users, wagers, now, resolutions, result>>

\* create_wager(opening_wager_record).await?
CreateBetCreateWager(i) ==
    LET call == calls[i]
        opening_wager_record ==
            [bet_id |-> call.bet.id, user_id |-> call.creator_id, side |-> "Yes",
             amount |-> call.opening_wager,
             yes_pool_after |-> call.bet.yes_pool, no_pool_after |-> call.bet.no_pool,
             probability_after |-> calculate_probability(call.bet.yes_pool, call.bet.no_pool)]
    IN  /\ call.op = "create_bet"
        /\ call.pc = "create_wager"
        /\ wagers' = Append(wagers, opening_wager_record)
        /\ calls' = [calls EXCEPT ![i].pc = "update_user_balance"]
        /\ UNCHANGED <<markets, users, bets, now, resolutions, result>>

\* update_user_balance(creator_id, creator.balance - opening_wager).await?;
\* Ok(bet)
CreateBetUpdateUserBalance(i) ==
    /\ calls[i].op = "create_bet"
    /\ calls[i].pc = "update_user_balance"
    /\ users' = update_user_balance(users, calls[i].creator_id,
                                    calls[i].creator.balance - calls[i].opening_wager)
    /\ result' = OkResult("create_bet", calls[i].bet)
    /\ calls' = RemoveAt(calls, i)
    /\ UNCHANGED <<markets, bets, wagers, now, resolutions>>

\* An open market with its admin and Alice, 22 coins each, and amounts of 7
\* and 15: two amounts of 15 are more than a user holds.
RaceAmounts == {7, 15}

InitRace ==
    /\ markets = <<ViewMarket>>
    /\ users = <<ViewUser(1), ViewUser(2)>>
    /\ bets = <<>>
    /\ wagers = <<>>
    /\ now = 0
    /\ resolutions = <<>>
    /\ result = OkResult("new", <<>>)
    /\ calls = <<>>
    /\ broadcasts = <<>>

DoPlaceWagerBegin ==
    \E b \in BetIds, u \in DOMAIN users, sd \in Sides, a \in RaceAmounts : PlaceWagerBegin(b, u, sd, a) /\ UNCHANGED broadcasts

DoPlaceWagerGetMarket ==
    \E i \in DOMAIN calls : PlaceWagerGetMarket(i) /\ UNCHANGED broadcasts

DoPlaceWagerGetUser ==
    \E i \in DOMAIN calls : PlaceWagerGetUser(i) /\ UNCHANGED broadcasts

DoPlaceWagerCreateWager ==
    \E i \in DOMAIN calls : PlaceWagerCreateWager(i) /\ UNCHANGED broadcasts

DoPlaceWagerUpdateBetPools ==
    \E i \in DOMAIN calls : PlaceWagerUpdateBetPools(i) /\ UNCHANGED broadcasts

DoPlaceWagerUpdateUserBalance ==
    \E i \in DOMAIN calls : PlaceWagerUpdateUserBalance(i) /\ UNCHANGED broadcasts

DoCreateBetBegin ==
    \E m \in MarketIds, c \in DOMAIN users, sj \in DOMAIN users, d \in Descriptions, o \in MktOddsLabels, w \in RaceAmounts : CreateBetBegin(m, c, sj, d, o, w, FALSE) /\ UNCHANGED broadcasts

DoCreateBetGetUser ==
    \E i \in DOMAIN calls : CreateBetGetUser(i) /\ UNCHANGED broadcasts

DoCreateBetInsert ==
    \E i \in DOMAIN calls : CreateBetInsert(i) /\ UNCHANGED broadcasts

DoCreateBetCreateWager ==
    \E i \in DOMAIN calls : CreateBetCreateWager(i) /\ UNCHANGED broadcasts

DoCreateBetUpdateUserBalance ==
    \E i \in DOMAIN calls : CreateBetUpdateUserBalance(i) /\ UNCHANGED broadcasts

NextRace ==
    \/ DoPlaceWagerBegin
    \/ DoPlaceWagerGetMarket
    \/ DoPlaceWagerGetUser
    \/ DoPlaceWagerCreateWager
    \/ DoPlaceWagerUpdateBetPools
    \/ DoPlaceWagerUpdateUserBalance
    \/ DoCreateBetBegin
    \/ DoCreateBetGetUser
    \/ DoCreateBetInsert
    \/ DoCreateBetCreateWager
    \/ DoCreateBetUpdateUserBalance

SpecRace == InitRace /\ [][NextRace]_vars

(* ------------- what the routes deliver about a hidden bet -------------- *)
\* Every websocket client is subscribed to the one broadcast channel, so
\* `broadcasts` is what each connected user has been sent.  Uuid::nil() is
\* the id 0, which names no user.
HiddenDescriptions == {"d1", "d2"}
HiddenCreators == {1, 2}
HiddenAmounts == {7}

\* SELECT * FROM bets WHERE subject_user_id = ?
get_bets_about_user(user_id) ==
    SelectSeq(bets, LAMBDA b : b.subject_user_id = user_id)

\* POST create_bet: the service call, then BetCreated to every client
RouteCreateBet(market_id, creator_id, subject_user_id, description, initial_odds, opening_wager, hide_from_subject) ==
    /\ CreateBet(market_id, creator_id, subject_user_id, description, initial_odds,
                 opening_wager, hide_from_subject)
    /\ broadcasts' = IF result'.kind = "Ok"
                     THEN Append(broadcasts, [type |-> "bet_created",
                                              bet_id |-> result'.value.id,
                                              description |-> description])
                     ELSE broadcasts

\* POST resolve_bet: the service call, get_bet, then BetResolved
RouteResolveBet(bet_id, admin_id, outcome) ==
    /\ ResolveBet(bet_id, admin_id, outcome)
    /\ broadcasts' = IF result'.kind = "Ok"
                     THEN Append(broadcasts, [type |-> "bet_resolved", bet_id |-> bet_id,
                                              outcome |-> outcome,
                                              status |-> bets'[bet_id].status])
                     ELSE broadcasts

\* GET get_bets: the listing as seen by user_id
RouteGetBets(market_id, user_id) ==
    GetBets(market_id, user_id) /\ UNCHANGED broadcasts

\* GET get_reveal: the bets about user_id, each viewed as Uuid::nil()
RouteGetReveal(user_id) ==
    LET found == get_bets_about_user(user_id)
    IN  /\ result' = OkResult("get_reveal", [i \in DOMAIN found |-> to_view(found[i], 0)])
        /\ UNCHANGED <<db, calls, broadcasts>>

DoRouteCreateBet ==
    \E m \in MarketIds, c \in HiddenCreators, sj \in HiddenCreators, d \in HiddenDescriptions, o \in MktOddsLabels, w \in HiddenAmounts, h \in BOOLEAN : RouteCreateBet(m, c, sj, d, o, w, h)

DoRouteResolveBet ==
    \E b \in BetIds, a \in UserIds, o \in Sides : RouteResolveBet(b, a, o)

DoRouteGetBets ==
    \E m \in MarketIds, v \in DOMAIN users : RouteGetBets(m, v)

DoRouteGetReveal ==
    \E u \in DOMAIN users : RouteGetReveal(u)

NextHidden ==
    \/ DoRouteCreateBet
    \/ DoRouteResolveBet
    \/ DoRouteGetBets
    \/ DoRouteGetReveal

SpecHidden == InitRace /\ [][NextHidden]_vars

(* ------------------------ the probability chart ------------------------ *)
\* The lifecycle of one market with the chart of a bet asked for at any time.
DoGetProbabilityChart ==
    \E b \in BetIds : GetProbabilityChart(b) /\ UNCHANGED broadcasts

NextChart ==
    \/ DoRunCreateMarket
    \/ DoRunJoinMarket
    \/ DoRunOpenMarket
    \/ DoRunCreateBet
    \/ DoRunPlaceWager
    \/ DoGetProbabilityChart

SpecChart == Init /\ [][NextChart]_vars

(* ----------------------- calculate_probability -------------------------- *)
\* The function applied to every pair of pools up to MaxPool.
ProbPools == 0..MaxPool

CalculateProbability(yes_pool, no_pool) ==
    /\ result' = OkResult("calculate_probability",
                           [yes_pool |-> yes_pool, no_pool |-> no_pool,
                            probability |-> calculate_probability(yes_pool, no_pool)])
    /\ UNCHANGED <<db, calls>>

DoCalculateProbability ==
    \E y \in ProbPools, n \in ProbPools : CalculateProbability(y, n) /\ UNCHANGED broadcasts

NextProb ==
    DoCalculateProbability

SpecProb == Init /\ [][NextProb]_vars

(* -------------------- the rules on any stored state -------------------- *)
\* One market in any status with its admin and a second user, and either no
\* bet yet or the admin's bet with opening wager 7 in any status (a bet that
\* was resolved Yes has paid the 7 back to the admin).
RulesBets ==
    {b \in ViewBets : b.yes_pool = 7 /\ b.no_pool = 0 /\ ~b.hide_from_subject}

RulesUsers(admin_balance) ==
    <<[ViewUser(1) EXCEPT !.balance = admin_balance], ViewUser(2)>>

RulesOpeningWager ==
    [bet_id |-> 1, user_id |-> 1, side |-> "Yes", amount |-> 7, yes_pool_after |-> 7,
     no_pool_after |-> 0, probability_after |-> calculate_probability(7, 0)]

InitRules ==
    /\ calls = <<>>
    /\ broadcasts = <<>>
    /\ \E ms \in MarketStatus : markets = <<[ViewMarket EXCEPT !.status = ms]>>
    /\ \/ /\ bets = <<>>
          /\ wagers = <<>>
          /\ users = RulesUsers(22)
       \/ \E b \in RulesBets :
             /\ bets = <<b>>
             /\ wagers = <<RulesOpeningWager>>
             /\ users = RulesUsers(IF b.status = "ResolvedYes" THEN 22 ELSE 15)
    /\ now = 0
    /\ resolutions = <<>>
    /\ result = OkResult("new", <<>>)

NextRules ==
    \/ DoCreateBet
    \/ DoApproveBet
    \/ DoPlaceWager
    \/ DoResolveBet
    \/ DoOpenMarket
    \/ DoCloseMarket

SpecRules == InitRules /\ [][NextRules]_vars

(* ------------------- resolve_bet, await by await ----------------------- *)
\* resolve_bet up to its first await: get_bet.  At most MaxCalls calls of
\* resolve_bet get as far as writing the status.
ResolveBetBegin(bet_id, admin_id, outcome) ==
    IF bet_id \notin DOMAIN bets
    THEN result' = ErrResult("resolve_bet", "NotFound", "Bet") /\ UNCHANGED <<db, calls>>
    ELSE /\ Len(calls) < MaxCalls
         /\ Len(resolutions) + InFlight("resolve_bet") < MaxCalls
         /\ calls' = Append(calls, [op |-> "resolve_bet", pc |-> "get_market",
                                     bet_id |-> bet_id, admin_id |-> admin_id,
                                     outcome |-> outcome, bet |-> bets[bet_id],
                                     market |-> None, payouts |-> <<>>, todo |-> {},
                                     payee |-> 0, user |-> None])
         /\ UNCHANGED <<db, result>>

\* get_market(bet.market_id).await?
ResolveBetGetMarket(i) ==
    /\ calls[i].op = "resolve_bet"
    /\ calls[i].pc = "get_market"
    /\ calls' = [calls EXCEPT ![i].pc = "get_user",
                              ![i].market = markets[calls[i].bet.market_id]]
    /\ UNCHANGED <<db, result>>

\* get_user(admin_id).await?, then validate_bet_resolution on what the call
\* has read
ResolveBetGetUser(i) ==
    LET call == calls[i]
    IN  /\ call.op = "resolve_bet"
        /\ call.pc = "get_user"
        /\ IF call.admin_id \notin DOMAIN users
           THEN /\ result' = ErrResult("resolve_bet", "NotFound", "User")
                /\ calls' = RemoveAt(calls, i)
                /\ UNCHANGED db
           ELSE LET verdict == validate_bet_resolution(call.market, call.bet,
                                                       users[call.admin_id])
                IN  IF verdict # "Ok"
                    THEN /\ result' = ErrResult("resolve_bet", "Constraint", verdict)
                         /\ calls' = RemoveAt(calls, i)
                         /\ UNCHANGED db
                    ELSE /\ calls' = [calls EXCEPT ![i].pc = "update_bet_status"]
                         /\ UNCHANGED <<db, result>>

\* update_bet_status(bet_id, new_status).await?
ResolveBetUpdateBetStatus(i) ==
    LET new_status == IF calls[i].outcome = "Yes" THEN "ResolvedYes" ELSE "ResolvedNo"
    IN  /\ calls[i].op = "resolve_bet"
        /\ calls[i].pc = "update_bet_status"
        /\ now' = now + 1
        /\ bets' = update_bet_status(bets, calls[i].bet_id, new_status, now + 1)
        /\ calls' = [calls EXCEPT ![i].pc = "get_bet"]
        /\ UNCHANGED <<markets, users, wagers, resolutions, result>>

\* let bet = get_bet(bet_id).await?
ResolveBetGetBet(i) ==
    /\ calls[i].op = "resolve_bet"
    /\ calls[i].pc = "get_bet"
    /\ calls' = [calls EXCEPT ![i].pc = "get_wagers_for_bet",
                              ![i].bet = bets[calls[i].bet_id]]
    /\ UNCHANGED <<db, result>>

\* get_wagers_for_bet(bet_id).await?, then calculate_payouts; with no
\* payout the loop is empty and the call returns Ok(payouts)
ResolveBetGetWagers(i) ==
    LET call == calls[i]
        payouts == calculate_payouts(call.bet, get_wagers_for_bet(call.bet_id))
    IN  /\ call.op = "resolve_bet"
        /\ call.pc = "get_wagers_for_bet"
        /\ IF DOMAIN payouts = {}
           THEN /\ result' = OkResult("resolve_bet", payouts)
                /\ resolutions' = Append(resolutions, [bet |-> call.bet, payouts |-> payouts])
                /\ calls' = RemoveAt(calls, i)
                /\ UNCHANGED <<markets, users, bets, wagers, now>>
           ELSE /\ calls' = [calls EXCEPT ![i].pc = "get_payee", ![i].payouts = payouts,
                                          ![i].todo = DOMAIN payouts]
                /\ UNCHANGED <<db, result>>

\* for (user_id, payout) in &payouts: get_user(*user_id).await?, the
\* entries in the order of the HashMap, which is any order
ResolveBetGetPayee(i) ==
    /\ calls[i].op = "resolve_bet"
    /\ calls[i].pc = "get_payee"
    /\ \E u \in calls[i].todo :
          calls' = [calls EXCEPT ![i].pc = "update_user_balance", ![i].payee = u,
                                 ![i].user = users[u]]
    /\ UNCHANGED <<db, result>>

\* update_user_balance(*user_id, user.balance + payout).await?; after the
\* last entry Ok(payouts)
ResolveBetUpdateUserBalance(i) ==
    LET call == calls[i]
        todo == call.todo \ {call.payee}
    IN  /\ call.op = "resolve_bet"
        /\ call.pc = "update_user_balance"
        /\ users' = update_user_balance(users, call.payee,
                                        call.user.balance + call.payouts[call.payee])
        /\ IF todo = {}
           THEN /\ result' = OkResult("resolve_bet", call.payouts)
                /\ resolutions' = Append(resolutions,
                                          [bet |-> call.bet, payouts |-> call.payouts])
                /\ calls' = RemoveAt(calls, i)
           ELSE /\ calls' = [calls EXCEPT ![i].pc = "get_payee", ![i].todo = todo]
                /\ UNCHANGED <<resolutions, result>>
        /\ UNCHANGED <<markets, bets, wagers, now>>

\* An open market with its admin and Alice and the admin's Active bet about
\* the admin, opening wager 7: Alice may wager on it and the admin resolves.
ResolveAmounts == {7}
ResolveAdmins == {1}
ResolveWagerers == {2}

InitResolveRace ==
    /\ markets = <<ViewMarket>>
    /\ users = RulesUsers(15)
    /\ bets = <<CHOOSE b \in RulesBets : b.status = "Active" /\ b.subject_user_id = 1 /\ b.description = "d1">>
    /\ wagers = <<RulesOpeningWager>>
    /\ now = 0
    /\ resolutions = <<>>
    /\ result = OkResult("new", <<>>)
    /\ calls = <<>>
    /\ broadcasts = <<>>

DoResolveBetBegin ==
    \E b \in BetIds, a \in ResolveAdmins, o \in Sides : ResolveBetBegin(b, a, o) /\ UNCHANGED broadcasts

DoResolveBetGetMarket ==
    \E i \in DOMAIN calls : ResolveBetGetMarket(i) /\ UNCHANGED broadcasts

DoResolveBetGetUser ==
    \E i \in DOMAIN calls : ResolveBetGetUser(i) /\ UNCHANGED broadcasts

DoResolveBetUpdateBetStatus ==
    \E i \in DOMAIN calls : ResolveBetUpdateBetStatus(i) /\ UNCHANGED broadcasts

DoResolveBetGetBet ==
    \E i \in DOMAIN calls : ResolveBetGetBet(i) /\ UNCHANGED broadcasts

DoResolveBetGetWagers ==
    \E i \in DOMAIN calls : ResolveBetGetWagers(i) /\ UNCHANGED broadcasts

DoResolveBetGetPayee ==
    \E i \in DOMAIN calls : ResolveBetGetPayee(i) /\ UNCHANGED broadcasts

DoResolveBetUpdateUserBalance ==
    \E i \in DOMAIN calls : ResolveBetUpdateUserBalance(i) /\ UNCHANGED broadcasts

DoResolveRacePlaceWagerBegin ==
    \E b \in BetIds, u \in ResolveWagerers, sd \in Sides, a \in ResolveAmounts : PlaceWagerBegin(b, u, sd, a) /\ UNCHANGED broadcasts

DoResolveRaceApproveBet ==
    \E b \in BetIds, a \in ResolveAdmins : b \in DOMAIN bets /\ ApproveBet(b, a) /\ UNCHANGED broadcasts

NextResolveRace ==
    \/ DoResolveBetBegin
    \/ DoResolveBetGetMarket
    \/ DoResolveBetGetUser
    \/ DoResolveBetUpdateBetStatus
    \/ DoResolveBetGetBet
    \/ DoResolveBetGetWagers
    \/ DoResolveBetGetPayee
    \/ DoResolveBetUpdateUserBalance
    \/ DoResolveRacePlaceWagerBegin
    \/ DoPlaceWagerGetMarket
    \/ DoPlaceWagerGetUser
    \/ DoPlaceWagerCreateWager
    \/ DoPlaceWagerUpdateBetPools
    \/ DoPlaceWagerUpdateUserBalance
    \/ DoResolveRaceApproveBet

SpecResolveRace == InitResolveRace /\ [][NextResolveRace]_vars

(* ------------------------- storage failures ---------------------------- *)
\* Every storage call returns DbResult and the service passes an error on
\* with `?`; no call of the service runs in a transaction.  A call that
\* fails (DbError::Internal) after earlier writes of the same operation
\* leaves those writes in place.  `failed` names the write that fails.
CreateBetWrites == <<"create_bet", "create_wager", "update_user_balance">>

PlaceWagerWrites == <<"create_wager", "update_bet_pools", "update_user_balance">>

\* position of a write in the order the operation performs its writes
WriteIndex(writes, failed) ==
    CHOOSE i \in DOMAIN writes : writes[i] = failed

CreateBetFails(market_id, creator_id, subject_user_id, description, initial_odds, opening_wager, hide_from_subject, failed) ==
    /\ market_id \in DOMAIN markets
    /\ creator_id \in DOMAIN users
    /\ subject_user_id \in DOMAIN users
    /\ validate_bet_creation(markets[market_id], users[creator_id], subject_user_id, opening_wager) = "Ok"
    /\ parse_initial_odds(initial_odds, opening_wager) # None
    /\ Len(bets) < MaxBets
    /\ Len(wagers) < MaxWagers
    /\ LET pools == parse_initial_odds(initial_odds, opening_wager)
           yes_pool == pools[1][1]
           no_pool == pools[1][2]
           bet == [id |-> Len(bets) + 1, market_id |-> market_id,
                   subject_user_id |-> subject_user_id,
                   created_by |-> creator_id,
                   description |-> description,
                   initial_odds |-> initial_odds,
                   status |-> "Active",
                   yes_pool |-> yes_pool, no_pool |-> no_pool,
                   hide_from_subject |-> hide_from_subject,
                   resolved_at |-> None]
           opening_wager_record ==
                  [bet_id |-> bet.id, user_id |-> creator_id, side |-> "Yes",
                   amount |-> opening_wager,
                   yes_pool_after |-> yes_pool, no_pool_after |-> no_pool,
                   probability_after |-> calculate_probability(yes_pool, no_pool)]
           k == WriteIndex(CreateBetWrites, failed)
       IN  /\ bets' = IF k > 1 THEN Append(bets, bet) ELSE bets
           /\ wagers' = IF k > 2 THEN Append(wagers, opening_wager_record) ELSE wagers
           /\ result' = ErrResult("create_bet", "Internal", "")
           /\ UNCHANGED <<markets, users, now, resolutions, calls>>

PlaceWagerFails(bet_id, user_id, side, amount, failed) ==
    /\ bet_id \in DOMAIN bets
    /\ user_id \in DOMAIN users
    /\ validate_wager(markets[bets[bet_id].market_id], bets[bet_id], users[user_id], amount) = "Ok"
    /\ Len(wagers) < MaxWagers
    /\ LET bet == bets[bet_id]
           after == calculate_potential_payout(bet.yes_pool, bet.no_pool, side, amount)
           yes_pool_after == after[1]
           no_pool_after == after[2]
           wager == [bet_id |-> bet_id, user_id |-> user_id, side |-> side,
                     amount |-> amount,
                     yes_pool_after |-> yes_pool_after, no_pool_after |-> no_pool_after,
                     probability_after |->
                         calculate_probability(yes_pool_after, no_pool_after)]
           k == WriteIndex(PlaceWagerWrites, failed)
       IN  /\ wagers' = IF k > 1 THEN Append(wagers, wager) ELSE wagers
           /\ bets' = IF k > 2 THEN update_bet_pools(bets, bet_id, yes_pool_after, no_pool_after)
                      ELSE bets
           /\ result' = ErrResult("place_wager", "Internal", "")
           /\ UNCHANGED <<markets, users, now, resolutions, calls>>

\* resolve_bet fails either at update_bet_status (written = FALSE) or later:
\* at a read, or in the loop over the payouts after the users of `credited`,
\* a set the iteration order of the payouts makes arbitrary, have been paid
ResolveBetFails(bet_id, admin_id, outcome, written, credited) ==
    /\ bet_id \in DOMAIN bets
    /\ admin_id \in DOMAIN users
    /\ validate_bet_resolution(markets[bets[bet_id].market_id], bets[bet_id], users[admin_id]) = "Ok"
    /\ now < MaxResolves
    /\ LET new_status == IF outcome = "Yes" THEN "ResolvedYes" ELSE "ResolvedNo"
           updated == update_bet_status(bets, bet_id, new_status, now + 1)
           payouts == calculate_payouts(updated[bet_id], get_wagers_for_bet(bet_id))
       IN  /\ credited \subseteq DOMAIN payouts
           /\ written \/ credited = {}
           /\ credited # DOMAIN payouts \/ DOMAIN payouts = {}
           /\ bets' = IF written THEN updated ELSE bets
           /\ now' = IF written THEN now + 1 ELSE now
           /\ users' = [u \in DOMAIN users |->
                           IF u \in credited
                           THEN [users[u] EXCEPT !.balance = @ + payouts[u]]
                           ELSE users[u]]
           /\ result' = ErrResult("resolve_bet", "Internal", "")
           /\ UNCHANGED <<markets, wagers, resolutions, calls>>

\* Alice's bets about Bob with opening wager 100, and wagers of 100
FailCreators == {2}

FailSubjects == {3}

FailAmounts == {100}

FailOddsLabels == {<<"1", ":", "1">>}

DoFailCreateBet ==
    \E m \in MarketIds, c \in FailCreators, sj \in FailSubjects, d \in Descriptions, o \in FailOddsLabels, w \in FailAmounts : CreateBet(m, c, sj, d, o, w, FALSE) /\ UNCHANGED broadcasts

DoFailPlaceWager ==
    \E b \in BetIds, u \in UserIds, sd \in Sides, a \in FailAmounts : PlaceWager(b, u, sd, a) /\ UNCHANGED broadcasts

DoCreateBetFails ==
    \E m \in MarketIds, c \in FailCreators, sj \in FailSubjects, d \in Descriptions, o \in FailOddsLabels, w \in FailAmounts, i \in DOMAIN CreateBetWrites : CreateBetFails(m, c, sj, d, o, w, FALSE, CreateBetWrites[i]) /\ UNCHANGED broadcasts

DoPlaceWagerFails ==
    \E b \in BetIds, u \in UserIds, sd \in Sides, a \in FailAmounts, i \in DOMAIN PlaceWagerWrites : PlaceWagerFails(b, u, sd, a, PlaceWagerWrites[i]) /\ UNCHANGED broadcasts

DoResolveBetFails ==
    \E b \in BetIds, a \in UserIds, o \in Sides, written \in BOOLEAN, credited \in SUBSET UserIds : ResolveBetFails(b, a, o, written, credited) /\ UNCHANGED broadcasts

NextFail ==
    \/ DoRunCreateMarket
    \/ DoRunJoinMarket
    \/ DoRunOpenMarket
    \/ DoFailCreateBet
    \/ DoFailPlaceWager
    \/ DoRunResolveBet
    \/ DoCreateBetFails
    \/ DoPlaceWagerFails
    \/ DoResolveBetFails

SpecFail == Init /\ [][NextFail]_vars

(* ------------------------- errors of the storage ----------------------- *)
\* The kinds of error a storage call can return (DbError of db/trait.rs);
\* the SQLite implementation reports every failure of a SELECT of one row,
\* the absence of the row or not, as NotFound.
StorageErrorKinds == {"NotFound", "Internal"}

\* join_market in which get_user_by_device_id returns Err(kind), whether
\* the row exists or not: `if let Ok(existing_user) = ..` drops the error
\* and the call goes on to create_user
JoinMarketLookupFails(invite_code, device_id, profile, kind) ==
    LET found == get_market_by_invite_code(invite_code)
        market == markets[CHOOSE m \in found : TRUE]
        user == [id |-> Len(users) + 1, market_id |-> market.id,
                 device_id |-> device_id,
                 display_name |-> profile[1], avatar |-> profile[2],
                 balance |-> market.starting_balance, is_admin |-> FALSE]
    IN  /\ found # {}
        /\ kind \in StorageErrorKinds
        /\ IF users_unique_violated(users, user)
           THEN /\ result' = ErrResult("join_market", "Internal", "users.market_id, users.device_id")
                /\ UNCHANGED <<db, calls>>
           ELSE /\ Len(users) < MaxUsers
                /\ users' = Append(users, user)
                /\ result' = OkResult("join_market", <<market, user>>)
                /\ UNCHANGED <<markets, bets, wagers, now, resolutions, calls>>

DoJoinMarketLookupFails ==
    \E c \in GeneratedCodes, j \in RunJoiners, k \in StorageErrorKinds : JoinMarketLookupFails(c, j[1], j[2], k) /\ UNCHANGED broadcasts

NextErrors ==
    \/ DoRunCreateMarket
    \/ DoRunJoinMarket
    \/ DoRunOpenMarket
    \/ DoFailCreateBet
    \/ DoFailPlaceWager
    \/ DoRunResolveBet
    \/ DoCreateBetFails
    \/ DoPlaceWagerFails
    \/ DoResolveBetFails
    \/ DoJoinMarketLookupFails

SpecErrors == Init /\ [][NextErrors]_vars

(* ------------------------------ properties ----------------------------- *)
RECURSIVE TotalAmount(_)
TotalAmount(ws) ==
    IF ws = <<>> THEN 0 ELSE Head(ws).amount + TotalAmount(Tail(ws))

\* the sum of the amounts of the wagers recorded for a bet on one side
SideTotal(bet_id, side) ==
    TotalAmount(SelectSeq(wagers, LAMBDA w : w.bet_id = bet_id /\ w.side = side))

IsResolved(status) ==
    status \in {"ResolvedYes", "ResolvedNo"}

\* C1: in every state reached by complete operations, each pool of every bet
\* equals the sum of the amounts of the bet's recorded wagers on that side.
C1_PoolsEqualWagerSums ==
    \A b \in DOMAIN bets :
        /\ bets[b].yes_pool = SideTotal(b, "Yes")
        /\ bets[b].no_pool = SideTotal(b, "No")

C1_Witness ==
    \E b \in DOMAIN bets :
        /\ IsResolved(bets[b].status)
        /\ Len(get_wagers_for_bet(b)) >= 2
        /\ bets[b].yes_pool > 0
        /\ bets[b].no_pool > 0

\* C2: in a market created with a non-negative starting balance no user's
\* balance is ever negative.
C2_BalancesNonNegative ==
    \A u \in DOMAIN users :
        markets[users[u].market_id].starting_balance >= 0 => users[u].balance >= 0

C2_Witness ==
    \E u \in DOMAIN users :
        /\ markets[users[u].market_id].starting_balance > 0
        /\ users[u].balance = 0
        /\ \E i \in DOMAIN wagers : wagers[i].user_id = u

MarketRank(status) ==
    CASE status = "Draft" -> 0
      [] status = "Open" -> 1
      [] status = "Closed" -> 2
      [] status = "Resolved" -> 3

\* C3: no step moves the status of a market backward in the order
\* Draft < Open < Closed < Resolved.
C3_MarketStatusNeverBackward ==
    [][\A m \in DOMAIN markets :
          MarketRank(markets'[m].status) >= MarketRank(markets[m].status)]_vars

\* C4: once a bet has been resolved its pools stay as they were at the
\* resolution and every place_wager on it is rejected.
C4_ResolvedBetFrozen ==
    [][\A i \in DOMAIN resolutions :
          LET at == resolutions[i].bet
          IN  /\ bets'[at.id].yes_pool = at.yes_pool
              /\ bets'[at.id].no_pool = at.no_pool
              /\ \A u \in UserIds, sd \in Sides, a \in Amounts :
                    PlaceWager(at.id, u, sd, a) => result'.kind # "Ok"]_vars

\* C5: place_wager never succeeds for the subject of the bet, and the
\* rejected attempt changes no stored row.
C5_SelfWagerRejected ==
    [][\A b \in BetIds, u \in UserIds, sd \in Sides, a \in Amounts :
          (/\ b \in DOMAIN bets
           /\ u \in DOMAIN users
           /\ bets[b].subject_user_id = u
           /\ PlaceWager(b, u, sd, a))
          => (result'.kind # "Ok" /\ UNCHANGED db)]_vars

C5_Witness ==
    result.kind = "Constraint" /\ result.err = "CannotBetOnSelf"

C7_RevealIrrevocable ==
    \A i \in DOMAIN resolutions :
        LET bet == bets[resolutions[i].bet.id]
        IN  ~to_view(bet, bet.subject_user_id).is_hidden

\* C8: join_market for a device that already has a user in the market
\* returns that user as stored, creates no user and changes no user; and no
\* step ever changes the id, device, name or avatar of a user.
C8_RejoinReturnsExisting ==
    [][/\ \A c \in JoinCodes, d \in Devices, p \in Profiles :
            \A m \in DOMAIN markets, u \in DOMAIN users :
                (/\ markets[m].invite_code = c
                 /\ users[u].market_id = m
                 /\ users[u].device_id = d
                 /\ JoinMarket(c, d, p))
                => /\ users' = users
                   /\ markets' = markets
                   /\ result'.kind = "Ok"
                   /\ result'.value = <<markets[m], users[u]>>
       /\ \A u \in DOMAIN users :
            /\ u \in DOMAIN users'
            /\ users'[u].id = users[u].id
            /\ users'[u].market_id = users[u].market_id
            /\ users'[u].device_id = users[u].device_id
            /\ users'[u].display_name = users[u].display_name
            /\ users'[u].avatar = users[u].avatar]_vars

C8_Witness ==
    /\ result.op = "join_market"
    /\ result.value[2].balance < result.value[1].starting_balance
    /\ Len(users) = 2

\* C9: a successful resolve_bet sets the status the outcome names, leaves
\* the pools alone and credits every user with exactly
\* floor(stake on the winning side * (yes pool + no pool) / winning pool),
\* which is nothing for a user without a stake on the winning side.
C9_ResolveCreditsExactShares ==
    [][\A b \in BetIds, a \in UserIds, o \in Sides :
          (ResolveBet(b, a, o) /\ now' = now + 1) =>
            LET bet == bets[b]
                total == bet.yes_pool + bet.no_pool
                winning == IF o = "Yes" THEN bet.yes_pool ELSE bet.no_pool
            IN  /\ bets'[b].status = (IF o = "Yes" THEN "ResolvedYes" ELSE "ResolvedNo")
                /\ bets'[b].yes_pool = bet.yes_pool
                /\ bets'[b].no_pool = bet.no_pool
                /\ \A u \in DOMAIN users :
                      LET stake == SumAmounts(get_wagers_for_bet(b), u, o)
                      IN  users'[u].balance = users[u].balance +
                              (IF stake > 0 THEN (stake * total) \div winning ELSE 0)]_vars

RECURSIVE SumOver(_, _)
SumOver(f, S) ==
    IF S = {} THEN 0
    ELSE LET x == CHOOSE y \in S : TRUE IN f[x] + SumOver(f, S \ {x})

\* C10: for a resolved bet whose pools are the sums of its wagers and whose
\* winning side holds a wager, the payouts sum to at most the total pool,
\* the shortfall is at most the number of users with a stake on the winning
\* side, and it is zero when every winner's share divides evenly.
C10_PayoutSumBounded ==
    \A b \in DOMAIN bets :
        (/\ IsResolved(bets[b].status)
         /\ bets[b].yes_pool = SideTotal(b, "Yes")
         /\ bets[b].no_pool = SideTotal(b, "No")
         /\ (IF bets[b].status = "ResolvedYes" THEN bets[b].yes_pool ELSE bets[b].no_pool) > 0)
        => LET ws == get_wagers_for_bet(b)
               side == IF bets[b].status = "ResolvedYes" THEN "Yes" ELSE "No"
               total == bets[b].yes_pool + bets[b].no_pool
               winning == IF side = "Yes" THEN bets[b].yes_pool ELSE bets[b].no_pool
               winners == {ws[i].user_id : i \in {j \in DOMAIN ws : ws[j].side = side}}
               payouts == calculate_payouts(bets[b], ws)
               paid == SumOver(payouts, DOMAIN payouts)
           IN  /\ paid <= total
               /\ total - paid <= Cardinality(winners)
               /\ (\A u \in winners : (SumAmounts(ws, u, side) * total) % winning = 0)
                  => paid = total

\* C11: a successful place_wager (the call is the one the returned wager
\* names) adds the amount to the pool of the chosen side and leaves the
\* other pool alone, takes the amount from the balance of the wagering user,
\* appends one wager whose snapshot holds the new pools, and changes no
\* other user, no other bet, no other field of the bet and no market.
C11_PlaceWagerFrame ==
    [][(result'.kind = "Ok" /\ result'.op = "place_wager") =>
          LET last == result'.value
              b == last.bet_id
              u == last.user_id
              sd == last.side
              a == last.amount
              yes == bets[b].yes_pool + (IF sd = "Yes" THEN a ELSE 0)
              no == bets[b].no_pool + (IF sd = "No" THEN a ELSE 0)
          IN  /\ PlaceWager(b, u, sd, a)
              /\ bets' = [bets EXCEPT ![b] = [bets[b] EXCEPT !.yes_pool = yes, !.no_pool = no]]
              /\ users' = [users EXCEPT ![u] = [users[u] EXCEPT !.balance = users[u].balance - a]]
              /\ wagers' = Append(wagers, last)
              /\ last.yes_pool_after = yes /\ last.no_pool_after = no
              /\ markets' = markets]_vars

C11_Witness ==
    /\ result.op = "place_wager"
    /\ result.value.side = "No"
    /\ result.value.no_pool_after = result.value.amount
    /\ result.value.yes_pool_after > 0
    /\ Len(users) >= 2

UserNamed(name) ==
    IF \E u \in DOMAIN users : users[u].display_name = name
    THEN CHOOSE u \in DOMAIN users : users[u].display_name = name
    ELSE 0

\* C13: after create_market(1000), join Alice, join Bob, open_market, Alice's
\* create_bet about Bob with opening wager 100 and the admin's wager of 200
\* on No, the pools are (100, 200), and resolve_bet Yes pays 300 to Alice
\* only and leaves the balances Alice 1200, admin 800, Bob 1000.
C13_LifecycleRun ==
    [][\A b \in BetIds, a \in UserIds :
          LET admin == UserNamed("Admin")
              alice == UserNamed("Alice")
              bob == UserNamed("Bob")
          IN  (/\ admin = 1 /\ alice = 2 /\ bob = 3
               /\ a = admin
               /\ markets[1].starting_balance = 1000
               /\ markets[1].status = "Open"
               /\ Len(bets) = 1 /\ b = 1
               /\ bets[b].created_by = alice /\ bets[b].subject_user_id = bob
               /\ Len(wagers) = 2
               /\ wagers[1].user_id = alice /\ wagers[1].side = "Yes" /\ wagers[1].amount = 100
               /\ wagers[2].user_id = admin /\ wagers[2].side = "No" /\ wagers[2].amount = 200
               /\ resolutions = <<>>
               /\ ResolveBet(b, a, "Yes"))
              => /\ bets[b].yes_pool = 100 /\ bets[b].no_pool = 200
                 /\ result'.kind = "Ok"
                 /\ result'.value = (alice :> 300)
                 /\ users'[alice].balance = 1200
                 /\ users'[admin].balance = 800
                 /\ users'[bob].balance = 1000]_vars

C13_Witness ==
    /\ result.op = "resolve_bet"
    /\ Len(users) = 3
    /\ DOMAIN result.value = {2}
    /\ users[2].display_name = "Alice" /\ users[2].balance = 1200
    /\ users[1].balance = 800
    /\ users[3].display_name = "Bob" /\ users[3].balance = 1000
    /\ bets[1].subject_user_id = 3

\* C18: the leaderboard of a market lists each of its users once, as
\* stored, with ranks 1..n by position, balances that do not increase with
\* the rank and profit = balance - starting balance; equal balances get
\* consecutive ranks.
C18_LeaderboardRanks ==
    [][(result'.kind = "Ok" /\ result'.op = "get_leaderboard") =>
          LET lb == result'.value
              m == lb[1].user.market_id
              ids == {u \in DOMAIN users : users[u].market_id = m}
          IN  /\ Len(lb) = Cardinality(ids)
              /\ \A u \in ids : Cardinality({i \in DOMAIN lb : lb[i].user = users[u]}) = 1
              /\ \A i \in DOMAIN lb : lb[i].rank = i
              /\ \A i \in DOMAIN lb :
                    lb[i].profit = lb[i].user.balance - markets[m].starting_balance
              /\ \A i, j \in DOMAIN lb :
                    i < j => lb[i].user.balance >= lb[j].user.balance]_vars

C18_Witness ==
    /\ result.op = "get_leaderboard"
    /\ Len(result.value) = 3
    /\ result.value[1].user.balance > result.value[2].user.balance
    /\ result.value[2].user.balance = result.value[3].user.balance
    /\ result.value[2].rank = 2 /\ result.value[3].rank = 3
    /\ result.value[3].profit < 0

C14_ValidateWagerIff ==
    [][\A b \in DOMAIN bets, u \in DOMAIN users, sd \in Sides, a \in Amounts :
          LET bet == bets[b]
              market == markets[bet.market_id]
              ok == /\ market.status = "Open"
                    /\ bet.status = "Active"
                    /\ a > 0
                    /\ a <= users[u].balance
                    /\ bet.subject_user_id # u
          IN  /\ (validate_wager(market, bet, users[u], a) = "Ok") <=> ok
              /\ PlaceWager(b, u, sd, a) =>
                    IF ok THEN result'.kind = "Ok"
                    ELSE result'.kind = "Constraint" /\ UNCHANGED db]_vars

C14_Witness ==
    /\ result.kind = "Constraint"
    /\ result.err = "BetNotActive"
    /\ markets[1].status = "Open"
    /\ bets[1].status = "Pending"
    /\ Len(wagers) = 1

\* C15: validate_bet_creation accepts exactly when the market is Draft or
\* Open and 0 < opening wager <= balance of the creator, whoever the subject
\* is; a rejected create_bet ends in a constraint error and creates no bet,
\* no wager and changes no balance.
C15_ValidateBetCreationIff ==
    [][LET ok(m, c, w) == /\ markets[m].status \in {"Draft", "Open"}
                          /\ 0 < w
                          /\ w <= users[c].balance
       IN  /\ \A m \in DOMAIN markets, c \in DOMAIN users, sj \in UserIds, w \in Amounts :
                (validate_bet_creation(markets[m], users[c], sj, w) = "Ok") <=> ok(m, c, w)
           /\ \/ result'.kind = "Constraint" /\ UNCHANGED db
              \/ \A m \in DOMAIN markets, c \in DOMAIN users, sj \in UserIds, w \in Amounts :
                    \A d \in Descriptions, o \in OddsLabels, h \in BOOLEAN :
                        ~(~ok(m, c, w) /\ CreateBet(m, c, sj, d, o, w, h))]_vars

C15_Witness ==
    /\ result.op = "create_bet"
    /\ result.value.subject_user_id = result.value.created_by
    /\ Len(bets) = 1
    /\ Len(wagers) = 1

\* C16: resolve_bet by an admin succeeds on an Active bet, fails with
\* AlreadyResolved on a ResolvedYes or ResolvedNo bet and with BetNotActive
\* on a Pending or Challenged bet, and a failure changes no stored row.
C16_ResolveOnlyActive ==
    [][\A b \in DOMAIN bets, a \in DOMAIN users, o \in Sides :
          (users[a].is_admin /\ ResolveBet(b, a, o)) =>
            CASE bets[b].status = "Active" -> result'.kind = "Ok"
              [] bets[b].status \in {"ResolvedYes", "ResolvedNo"} ->
                    /\ result'.kind = "Constraint"
                    /\ result'.err = "AlreadyResolved"
                    /\ UNCHANGED db
              [] bets[b].status \in {"Pending", "Challenged"} ->
                    /\ result'.kind = "Constraint"
                    /\ result'.err = "BetNotActive"
                    /\ UNCHANGED db]_vars

C16_Witness ==
    /\ result.kind = "Constraint"
    /\ result.err = "AlreadyResolved"
    /\ Len(resolutions) = 1

\* C17: approve_bet, resolve_bet (of a stored bet), open_market and
\* close_market called by a user without the admin flag end in the
\* constraint error AdminOnly and change no stored row.
C17_AdminOnly ==
    [][\A u \in DOMAIN users, b \in BetIds, m \in MarketIds, o \in Sides :
          (/\ ~users[u].is_admin
           /\ \/ ApproveBet(b, u)
              \/ (b \in DOMAIN bets /\ ResolveBet(b, u, o))
              \/ OpenMarket(m, u)
              \/ CloseMarket(m, u))
          => /\ result'.kind = "Constraint"
             /\ result'.err = "AdminOnly"
             /\ UNCHANGED db]_vars

C17_Witness ==
    /\ result.kind = "Constraint"
    /\ result.err = "AdminOnly"
    /\ Len(bets) = 1
    /\ bets[1].status = "Active"
    /\ markets[1].status = "Draft"

\* C19: a create_bet, place_wager or resolve_bet that returns an error, a
\* storage failure at any of its steps included, leaves every bet, wager,
\* pool, status and balance as it was before the call.
C19_FailureWritesNothing ==
    [][(result'.kind # "Ok" /\ ~UNCHANGED <<users, bets, wagers>>) =>
          /\ \A m \in MarketIds, c \in FailCreators, sj \in FailSubjects, d \in Descriptions, o \in FailOddsLabels, w \in FailAmounts :
                /\ ~CreateBet(m, c, sj, d, o, w, FALSE)
                /\ \A i \in DOMAIN CreateBetWrites :
                      ~CreateBetFails(m, c, sj, d, o, w, FALSE, CreateBetWrites[i])
          /\ \A b \in BetIds, u \in UserIds, sd \in Sides, a \in FailAmounts :
                /\ ~PlaceWager(b, u, sd, a)
                /\ \A i \in DOMAIN PlaceWagerWrites :
                      ~PlaceWagerFails(b, u, sd, a, PlaceWagerWrites[i])
          /\ \A b \in BetIds, a \in UserIds, o \in Sides :
                /\ ~ResolveBet(b, a, o)
                /\ \A written \in BOOLEAN, credited \in SUBSET UserIds :
                      ~ResolveBetFails(b, a, o, written, credited)]_vars

RECURSIVE SideSum(_, _)
\* the sum of the amounts of the wagers of ws on one side
SideSum(ws, side) ==
    IF ws = <<>> THEN 0
    ELSE (IF Head(ws).side = side THEN Head(ws).amount ELSE 0) + SideSum(Tail(ws), side)

\* C21: the chart of a bet has one point per recorded wager of the bet, the
\* opening wager of the creator first, in the order the wagers were placed,
\* and point i holds yes / (yes + no) of the pools made of the first i wagers.
C21_ChartPointPerWager ==
    [][\A b \in BetIds :
          GetProbabilityChart(b) =>
            LET chart == result'.value
                ws == SelectSeq(wagers, LAMBDA w : w.bet_id = b)
            IN  /\ Len(chart) = Len(ws)
                /\ b \in DOMAIN bets =>
                      /\ Len(chart) >= 1
                      /\ ws[1].user_id = bets[b].created_by
                /\ \A i \in DOMAIN chart :
                      LET yes == SideSum(SubSeq(ws, 1, i), "Yes")
                          no == SideSum(SubSeq(ws, 1, i), "No")
                      IN  /\ yes + no > 0
                          /\ chart[i].yes_probability[1] * (yes + no)
                                = yes * chart[i].yes_probability[2]
                          /\ chart[i].yes_probability = F64Ratio(yes, yes + no)]_vars

C21_Witness ==
    /\ result.op = "get_probability_chart"
    /\ Len(result.value) = 2
    /\ result.value[1].yes_probability = <<1, 1>>
    /\ result.value[2].yes_probability = <<1, 3>>

\* C22: for pools y, n >= 0 the probability lies in [0, 1]; it is 1/2 for
\* y = n = 0, 1 for y > 0 = n, 0 for y = 0 < n, and y / (y + n) otherwise.
C22_ProbabilityCases ==
    result.op = "calculate_probability" =>
        LET y == result.value.yes_pool
            n == result.value.no_pool
            p == result.value.probability
        IN  /\ p[2] > 0 /\ 0 <= p[1] /\ p[1] <= p[2]
            /\ (y = 0 /\ n = 0) => p = <<1, 2>>
            /\ (y > 0 /\ n = 0) => p = <<1, 1>>
            /\ (y = 0 /\ n > 0) => p = <<0, 1>>
            /\ (y > 0 /\ n > 0) => p[1] * (y + n) = y * p[2]

C22_Witness ==
    /\ result.op = "calculate_probability"
    /\ result.value.yes_pool = 5
    /\ result.value.no_pool = 7
    /\ result.value.probability = <<5, 12>>

C25_InviteCodeUnique ==
    [][/\ \A m1, m2 \in DOMAIN markets' :
             m1 # m2 => markets'[m1].invite_code # markets'[m2].invite_code
       /\ \/ result'.kind = "Internal" /\ UNCHANGED db
          \/ \A c \in MktCodes, g \in MktCodes, d \in AdminDevices, p \in AdminProfiles, sb \in MktStartingBalances :
                ~(/\ \E m \in DOMAIN markets : markets[m].invite_code = c
                  /\ CreateMarket(Some(c), g, d, p, sb))]_vars

C25_Witness ==
    /\ result.kind = "Internal"
    /\ Len(markets) = 2
    /\ markets[1].invite_code # markets[2].invite_code
    /\ Len(users) = 3

\* C24: in every state, those reached by join_market calls whose storage
\* calls interleave included, no two users have the same market and device.
C24_OneUserPerDevice ==
    \A u1, u2 \in DOMAIN users :
        (users[u1].market_id = users[u2].market_id /\ users[u1].device_id = users[u2].device_id)
        => u1 = u2

C24_Witness ==
    /\ result.kind = "Internal"
    /\ result.err = "users.market_id, users.device_id"
    /\ Len(users) = 2
    /\ users[2].device_id = "dev2"
    /\ users[2].market_id = 1
    /\ calls = <<>>
    /\ broadcasts = <<>>

\* C27: once the resolution time of a bet is set, no step clears it or
\* sets it again.
C27_ResolvedAtSetOnce ==
    [][\A b \in DOMAIN bets :
          bets[b].resolved_at # None => bets'[b].resolved_at = bets[b].resolved_at]_vars

\* C28: a call returns the kind of error its cause has: a storage call that
\* fails with NotFound or Internal makes the call return that kind, a
\* rejected validation makes it return Constraint, and a call that returns
\* Ok has met no error.
C28_ErrorKindPreserved ==
    [][/\ \A c \in GeneratedCodes, j \in RunJoiners, k \in StorageErrorKinds :
             JoinMarketLookupFails(c, j[1], j[2], k) => result'.kind = k
       /\ \A m \in MarketIds, c \in FailCreators, sj \in FailSubjects, d \in Descriptions, o \in FailOddsLabels, w \in FailAmounts :
             /\ \A i \in DOMAIN CreateBetWrites :
                   CreateBetFails(m, c, sj, d, o, w, FALSE, CreateBetWrites[i]) => result'.kind = "Internal"
             /\ (/\ m \in DOMAIN markets /\ c \in DOMAIN users
                 /\ validate_bet_creation(markets[m], users[c], sj, w) # "Ok"
                 /\ CreateBet(m, c, sj, d, o, w, FALSE)) => result'.kind = "Constraint"
             /\ ((m \notin DOMAIN markets \/ c \notin DOMAIN users) /\ CreateBet(m, c, sj, d, o, w, FALSE))
                   => result'.kind = "NotFound"
       /\ \A b \in BetIds, u \in UserIds, sd \in Sides, a \in FailAmounts :
             /\ \A i \in DOMAIN PlaceWagerWrites :
                   PlaceWagerFails(b, u, sd, a, PlaceWagerWrites[i]) => result'.kind = "Internal"
             /\ (/\ b \in DOMAIN bets /\ u \in DOMAIN users
                 /\ validate_wager(markets[bets[b].market_id], bets[b], users[u], a) # "Ok"
                 /\ PlaceWager(b, u, sd, a)) => result'.kind = "Constraint"
             /\ ((b \notin DOMAIN bets \/ u \notin DOMAIN users) /\ PlaceWager(b, u, sd, a))
                   => result'.kind = "NotFound"]_vars

\* the sum of the amounts of the wagers recorded for a user
StakedBy(user_id) ==
    TotalAmount(SelectSeq(wagers, LAMBDA w : w.user_id = user_id))

\* C29: when a place_wager call writes the pools it computed from a read of
\* the bet that another call's pool write has since overtaken, a pool of the
\* bet is left smaller than the sum of the recorded wager amounts on its side.
C29_LostPoolUpdate ==
    [][\A i \in DOMAIN calls :
          (/\ calls[i].op = "place_wager"
           /\ calls[i].pc = "update_bet_pools"
           /\ PlaceWagerUpdateBetPools(i)
           /\ <<calls[i].bet.yes_pool, calls[i].bet.no_pool>>
                 # <<bets[calls[i].bet_id].yes_pool, bets[calls[i].bet_id].no_pool>>)
          => \/ bets'[calls[i].bet_id].yes_pool < SideTotal(calls[i].bet_id, "Yes")
             \/ bets'[calls[i].bet_id].no_pool < SideTotal(calls[i].bet_id, "No")]_vars

C29_Witness ==
    /\ calls = <<>>
    /\ result.kind = "Ok"
    /\ result.op = "place_wager"
    /\ Len(wagers) = 3
    /\ \E b \in DOMAIN bets : bets[b].yes_pool < SideTotal(b, "Yes")

\* C30: when a place_wager or create_bet call writes the balance it computed
\* from a read of the user that another call's balance write has since
\* overtaken, the user's balance has dropped from the starting balance by
\* less than the sum of the amounts of the wagers recorded for them.
C30_LostBalanceUpdate ==
    [][\A i \in DOMAIN calls :
          LET place == calls[i].op = "place_wager"
              user_id == IF place THEN calls[i].user_id ELSE calls[i].creator_id
              read == IF place THEN calls[i].user ELSE calls[i].creator
          IN  (/\ calls[i].pc = "update_user_balance"
               /\ read.balance # users[user_id].balance
               /\ IF place THEN PlaceWagerUpdateUserBalance(i) ELSE CreateBetUpdateUserBalance(i))
              => markets[users[user_id].market_id].starting_balance - users'[user_id].balance
                    < StakedBy(user_id)]_vars

C30_Witness ==
    /\ calls = <<>>
    /\ \E u \in DOMAIN users :
          /\ markets[users[u].market_id].starting_balance - users[u].balance < StakedBy(u)
          /\ StakedBy(u) > markets[users[u].market_id].starting_balance
    /\ result.kind = "Ok"

\* the description the bet has in the execution that differs in it
OtherDescription(description) ==
    CHOOSE d \in HiddenDescriptions : d # description

\* the bet is one that to_view hides from user_id, and is not yet resolved
Concealed(bet, user_id) ==
    /\ bet.hide_from_subject
    /\ bet.subject_user_id = user_id
    /\ bet.status \in {"Pending", "Active"}

\* the stored bet of the execution that differs in the description of the
\* bets concealed from user_id
OtherBet(bet, user_id) ==
    IF Concealed(bet, user_id) THEN [bet EXCEPT !.description = OtherDescription(@)] ELSE bet

\* the message the other execution has broadcast in the place of msg
OtherBroadcast(msg, user_id) ==
    IF msg.type = "bet_created" /\ Concealed(bets[msg.bet_id], user_id)
    THEN [msg EXCEPT !.description = OtherDescription(@)]
    ELSE msg

\* C26: what a user is sent (the broadcasts, the listing they ask for and
\* the reveal query about them) is the same in the execution in which the
\* bets that are hidden from them, and Pending or Active, have another
\* description.
C26_HiddenBetNoninterference ==
    [][\A s \in DOMAIN users :
          /\ \A i \in DOMAIN broadcasts : OtherBroadcast(broadcasts[i], s) = broadcasts[i]
          /\ \A m \in MarketIds :
                RouteGetBets(m, s)
                => LET found == get_bets_in_market(m)
                   IN  result'.value = [i \in DOMAIN found |-> to_view(OtherBet(found[i], s), s)]
          /\ RouteGetReveal(s)
                => LET found == get_bets_about_user(s)
                   IN  result'.value = [i \in DOMAIN found |-> to_view(OtherBet(found[i], s), 0)]]_vars

\* C31: no step records a wager on a bet, or writes a pool of a bet, whose
\* status is ResolvedYes or ResolvedNo, place_wager and resolve_bet calls
\* that interleave included.
C31_NoWriteAfterResolution ==
    [][\A b \in DOMAIN bets :
          IsResolved(bets[b].status)
          => /\ SelectSeq(wagers', LAMBDA w : w.bet_id = b) = SelectSeq(wagers, LAMBDA w : w.bet_id = b)
             /\ bets'[b].yes_pool = bets[b].yes_pool
             /\ bets'[b].no_pool = bets[b].no_pool]_vars

\* C32: approve_bet by an admin on a bet that is Active returns the bet as
\* it was and changes no bet, no wager and no balance.
C32_ApproveActiveIsNoOp ==
    [][(/\ result'.kind = "Ok"
        /\ result'.op = "approve_bet"
        /\ bets[result'.value.id].status = "Active")
       => /\ result'.value = bets[result'.value.id]
          /\ UNCHANGED db]_vars

C32_Witness ==
    /\ result.kind = "Ok"
    /\ result.op = "approve_bet"
    /\ resolutions = <<>>
    /\ result.value.status = "Active"
    /\ result.value.yes_pool > 0
    /\ result.value.no_pool > 0
    /\ Len(wagers) = 2

C34_ResolveToEmptyPool ==
    [][\A b \in BetIds, a \in UserIds, o \in Sides :
          (/\ b \in DOMAIN bets
           /\ a \in DOMAIN users
           /\ users[a].is_admin
           /\ bets[b].status = "Active"
           /\ (IF o = "Yes" THEN bets[b].yes_pool ELSE bets[b].no_pool) = 0
           /\ ResolveBet(b, a, o))
          => /\ result'.kind = "Ok"
             /\ result'.value = <<>>
             /\ bets'[b].status = (IF o = "Yes" THEN "ResolvedYes" ELSE "ResolvedNo")
             /\ users' = users]_vars

C34_Witness ==
    /\ result.kind = "Ok"
    /\ result.op = "resolve_bet"
    /\ result.value = <<>>
    /\ bets[1].status = "ResolvedNo"
    /\ bets[1].no_pool = 0
    /\ bets[1].yes_pool = 7
    /\ users[1].balance = 15

\* the wager's amount where it is on the side, 0 where it is not
StakeOn(wager, side) ==
    IF wager.side = side THEN wager.amount ELSE 0

\* C35: for every bet the pool snapshots of its wagers, in placement
\* order, start at (opening wager, 0), each next one is the one before with
\* the wager's amount added on the wager's side, and the last one is the
\* pools the bet is stored with.
C35_SnapshotsChain ==
    \A b \in DOMAIN bets :
        LET ws == get_wagers_for_bet(b)
        IN  ws # <<>> =>
              /\ ws[1].yes_pool_after = ws[1].amount
              /\ ws[1].no_pool_after = 0
              /\ \A i \in 2..Len(ws) :
                    /\ ws[i].yes_pool_after = ws[i - 1].yes_pool_after + StakeOn(ws[i], "Yes")
                    /\ ws[i].no_pool_after = ws[i - 1].no_pool_after + StakeOn(ws[i], "No")
              /\ bets[b].yes_pool = ws[Len(ws)].yes_pool_after
              /\ bets[b].no_pool = ws[Len(ws)].no_pool_after

C35_Witness ==
    /\ Len(get_wagers_for_bet(1)) = 2
    /\ wagers[2].side = "No"
    /\ wagers[2].no_pool_after = wagers[2].amount
    /\ wagers[2].yes_pool_after = wagers[1].amount
    /\ wagers[1].amount # wagers[2].amount
    /\ IsResolved(bets[1].status)

\* C36: in every state, for every market, the balances of its users plus
\* the pools of its bets that are not resolved are at most the number of
\* its users times its starting balance.
C36_NoCoinsCreated ==
    \A m \in DOMAIN markets :
        LET members == {u \in DOMAIN users : users[u].market_id = m}
            open_bets == {b \in DOMAIN bets : bets[b].market_id = m /\ ~IsResolved(bets[b].status)}
        IN  SumOver([u \in members |-> users[u].balance], members)
              + SumOver([b \in open_bets |-> bets[b].yes_pool + bets[b].no_pool], open_bets)
            <= Cardinality(members) * markets[m].starting_balance

\* C37: for every bet, at most one resolve_bet call has credited payouts,
\* calls that run one after another or interleave alike.
C37_PaysOutAtMostOnce ==
    \A b \in DOMAIN bets :
        Cardinality({i \in DOMAIN resolutions :
                        resolutions[i].bet.id = b /\ DOMAIN resolutions[i].payouts # {}}) <= 1

\* C38: open_market and close_market on a market, and approve_bet and
\* resolve_bet on a bet of a market, do not return Ok for a caller who is a
\* user of another market.
C38_AdminOfOwnMarketOnly ==
    [][/\ \A m \in DOMAIN markets, a \in DOMAIN users :
             (users[a].market_id # m /\ (OpenMarket(m, a) \/ CloseMarket(m, a)))
             => result'.kind # "Ok"
       /\ \A b \in DOMAIN bets, a \in DOMAIN users, o \in Sides :
             (users[a].market_id # bets[b].market_id /\ (ApproveBet(b, a) \/ ResolveBet(b, a, o)))
             => result'.kind # "Ok"]_vars

\* C39: in every state the creator and the subject of each bet, and the
\* user of each of its wagers, are users of the market of the bet.
C39_BetUsersOfOwnMarket ==
    /\ \A b \in DOMAIN bets :
          /\ users[bets[b].created_by].market_id = bets[b].market_id
          /\ users[bets[b].subject_user_id].market_id = bets[b].market_id
    /\ \A w \in DOMAIN wagers :
          users[wagers[w].user_id].market_id = bets[wagers[w].bet_id].market_id

====
